---- MODULE Spec2Model ----
(***************************************************************************)
(* Model of the State-Machine orchestrator:                                *)
(*   - the driver StateMachine.run            (src/core/state_machine.py)  *)
(*   - the Choice state                (src/core/handlers/choice_handler.py)*)
(*   - the expression compiler ConditionParser  (src/core/utils/parser.py) *)
(*     together with the Python semantics of the code it generates.        *)
(*                                                                         *)
(* Statements are modelled as sequences of words (the source works on      *)
(* single-space separated text).  The vocabulary of the modelled           *)
(* statements is: when, then, else, and, or, not, exist, the comparison    *)
(* operators gt lt eq neq gte lte, the keywords true false null, JSONPath  *)
(* terms $.name, tags #name, integer literals and quoted one-word          *)
(* literals.  No word of the vocabulary contains another keyword as a      *)
(* substring, so the substring tests of the source ('when' in s, ...)      *)
(* coincide with the word tests used here.                                 *)
(***************************************************************************)
EXTENDS Integers, Sequences, FiniteSets, TLC

(***************************************************************************)
(* Python values that reach the generated decision function.               *)
(***************************************************************************)
IntV(n) == [t |-> "int", n |-> n, s |-> ""]
StrV(s) == [t |-> "str", n |-> 0, s |-> s]
BoolV(b) == [t |-> "bool", n |-> IF b THEN 1 ELSE 0, s |-> ""]
NoneV == [t |-> "none", n |-> 0, s |-> ""]

\* a key that the document does not hold
Missing == [t |-> "missing", n |-> 0, s |-> ""]

\* the string Utils.jsonpath_query returns when the path has no match
NotMatches == StrV("__not_matches__")

\* outcome of a Python call: a returned value or a raised exception
Ret(v) == [tag |-> "ret", v |-> v, exc |-> ""]
Raise(e) == [tag |-> "raise", v |-> NoneV, exc |-> e]

\* Python truth value of a value (bool(x))
Truthy(v) ==
  CASE v.t = "int" -> v.n # 0
    [] v.t = "bool" -> v.n # 0
    [] v.t = "str" -> v.s # ""
    [] OTHER -> FALSE

(***************************************************************************)
(* Words of a statement.                                                   *)
(***************************************************************************)
Kw(s) == [k |-> "kw", s |-> s, n |-> 0]
Path(s) == [k |-> "path", s |-> s, n |-> 0]
Tag(s) == [k |-> "tag", s |-> s, n |-> 0]
Num(n) == [k |-> "num", s |-> "", n |-> n]
Lit(s) == [k |-> "str", s |-> s, n |-> 0]
\* a Python identifier of the generated code
Name(s) == [k |-> "name", s |-> s, n |-> 0]

IsKw(w, s) == w.k = "kw" /\ w.s = s

\* positions of the keyword s in the word sequence st
Positions(st, s) == {i \in 1..Len(st) : IsKw(st[i], s)}

Min(set) == CHOOSE x \in set : \A y \in set : x <= y

\* str.replace('-', '_') on the names of the vocabulary
SafeName(s) == IF s = "no-match" THEN "no_match" ELSE s

\* an event: a document (a mapping from keys to values, Missing for a key
\* it does not hold) or Python's None
Event(doc) == [none |-> FALSE, doc |-> doc]
NoneEvent == [none |-> TRUE, doc |-> <<>>]

\* Utils.jsonpath_query: the value at $.p, or the not-matches string when
\* the path matches nothing
JsonpathQuery(obj, p) ==
  IF ~obj.none /\ p \in DOMAIN obj.doc /\ obj.doc[p] # Missing
  THEN obj.doc[p]
  ELSE NotMatches

\* parameter name of the signature: re.sub(r'[^a-zA-Z0-9_]', '_', p[1:])
SigParam(p) == "_" \o p

\* parameter name used in the body: '_' + content.replace('.', '_')
BodyParam(p) == "_" \o p

(***************************************************************************)
(* ConditionParser: from statements to the lines of the generated Python   *)
(* function.  A generated line is its indentation level, its kind          *)
(* ("if" / "return") and the words of its expression.                      *)
(***************************************************************************)
RetLine(ind, toks) == [ind |-> ind, kind |-> "return", toks |-> toks]
IfLine(ind, toks) == [ind |-> ind, kind |-> "if", toks |-> toks]

\* result of a compilation step: the lines, or the exception it raised
Lines(ls) == [exc |-> "", lines |-> ls]
Fails(e) == [exc |-> e, lines |-> <<>>]

\* x[1:].replace('-', '_') if x.startswith('#') else x
StripTag(x) ==
  IF Len(x) > 0 /\ x[1].k = "tag"
  THEN <<Name(SafeName(x[1].s))>> \o Tail(x)
  ELSE x

\* ConditionParser.add_constants_or_literals: the return line of a bare
\* tag or quoted literal, no line (None) for anything else
AddConstantsOrLiterals(ind, statement) ==
  IF Len(statement) = 0 THEN Fails("IndexError")
  ELSE IF statement[1].k = "tag" THEN Lines(<<RetLine(ind, StripTag(statement))>>)
  ELSE IF Len(statement) = 1 /\ statement[1].k = "str"
       THEN Lines(<<RetLine(ind, statement)>>)
  ELSE Lines(<<>>)

\* ConditionParser._convert_jsonpath_to_params: $.p becomes the parameter
\* name; ' true', ' false', ' null' (preceded by a space, so never the first
\* word) become True, False, None
ConvertJsonpathToParams(condition) ==
  [i \in 1..Len(condition) |->
     LET w == condition[i] IN
       IF w.k = "path" THEN Name(BodyParam(w.s))
       ELSE IF i > 1 /\ IsKw(w, "true") THEN Name("True")
       ELSE IF i > 1 /\ IsKw(w, "false") THEN Name("False")
       ELSE IF i > 1 /\ IsKw(w, "null") THEN Name("None")
       ELSE w]

\* faulty variant of PyOp: lt is taken for "less than or equal"
PyOpLtInclusive(s) ==
  CASE s = "gt" -> ">"
    [] s = "lt" -> "<="
    [] s = "eq" -> "=="
    [] s = "neq" -> "!="
    [] s = "gte" -> ">="
    [] s = "lte" -> "<="
    [] OTHER -> s

\* the Python operator of a comparison word
PyOp(s) ==
  CASE s = "gt" -> ">"
    [] s = "lt" -> "<"
    [] s = "eq" -> "=="
    [] s = "neq" -> "!="
    [] s = "gte" -> ">="
    [] s = "lte" -> "<="
    [] OTHER -> s

\* ConditionParser._op_substitution: re.sub(r'\s+gt\s+', ' > ', ...) and the
\* like replace an operator word that has a word on each side
OpSubstitution(condition) ==
  LET text == ConvertJsonpathToParams(condition) IN
  [i \in 1..Len(text) |->
     IF 1 < i /\ i < Len(text) /\ text[i].k = "kw" /\ PyOp(text[i].s) # text[i].s
     THEN Kw(PyOp(text[i].s))
     ELSE text[i]]

\* the loop "while 'exist ' in condition" of _process_statement:
\* exist X becomes X != '__not_matches__'
RECURSIVE ExistSubstitution(_)
ExistSubstitution(condition) ==
  LET at == {i \in Positions(condition, "exist") : i < Len(condition)} IN
  IF at = {} THEN condition
  ELSE LET i == Min(at) IN
       ExistSubstitution(SubSeq(condition, 1, i - 1)
                         \o <<condition[i + 1], Kw("!="), Lit("__not_matches__")>>
                         \o SubSeq(condition, i + 2, Len(condition)))

\* ConditionParser._extract_nested_statement_parts: (condition, then_part)
ExtractNestedStatementParts(statement) ==
  LET whens == Positions(statement, "when")
      \* re.search(r'when\s+(.*?)\s+then\s+(.*)'): the first when, the first
      \* then that leaves room for the separating spaces and is followed by one
      thens(i) == {j \in Positions(statement, "then") : j >= i + 2 /\ j < Len(statement)}
      matches == {i \in whens : thens(i) # {}}
  IN
  IF matches = {} THEN [condition |-> <<>>, then_part |-> statement]
  ELSE LET i == Min(matches)
           j == Min(thens(i))
           then_part == SubSeq(statement, j + 1, Len(statement))
       IN
       IF Positions(then_part, "when") # {}
       THEN \* statement.find('when'), then the first 'then' after it
            LET when_pos == Min(whens)
                first_then == Min({x \in Positions(statement, "then") : x > when_pos})
            IN [condition |-> SubSeq(statement, when_pos + 1, first_then - 1),
                then_part |-> SubSeq(statement, first_then + 1, Len(statement))]
       ELSE [condition |-> SubSeq(statement, i + 1, j - 1), then_part |-> then_part]

\* ConditionParser._is_nested_statement
IsNestedStatement(then_part) == Positions(then_part, "when") # {}

\* the positions where ' else ' occurs: an else with a word on each side
ElsePositions(text) == {i \in Positions(text, "else") : 1 < i /\ i < Len(text)}

\* the lines of one piece of generated code followed by another; an
\* exception raised while building either one propagates
Concat(one, rest) ==
  IF one.exc # "" THEN one
  ELSE IF rest.exc # "" THEN rest
  ELSE Lines(one.lines \o rest.lines)

\* ConditionParser._process_statement: a bare tag or literal is its return
\* line; otherwise the if line of the condition, followed by what the then
\* part gives (ProcessThenPart)
RECURSIVE ProcessStatement(_, _)
RECURSIVE ProcessThenPart(_, _, _)
\* faulty variant of ProcessThenPart: the return of the else part is
\* indented like the return of the then part, inside the if
ProcessThenPartElseInside(head, then_part, indent_level) ==
  IF IsNestedStatement(then_part)
  THEN Concat(Lines(<<head>>), ProcessStatement(then_part, indent_level + 1))
  ELSE IF ElsePositions(then_part) # {}
  THEN IF Cardinality(ElsePositions(then_part)) # 1 THEN Fails("ValueError")
       ELSE Lines(<<head,
                    RetLine(indent_level + 1,
                            StripTag(SubSeq(then_part, 1,
                                            Min(ElsePositions(then_part)) - 1))),
                    RetLine(indent_level + 1,
                            StripTag(SubSeq(then_part,
                                            Min(ElsePositions(then_part)) + 1,
                                            Len(then_part))))>>)
  ELSE Concat(Lines(<<head>>), AddConstantsOrLiterals(indent_level + 1, then_part))

ProcessThenPart(head, then_part, indent_level) ==
  IF IsNestedStatement(then_part)
  THEN Concat(Lines(<<head>>), ProcessStatement(then_part, indent_level + 1))
  ELSE IF ElsePositions(then_part) # {}
  THEN \* _then, _else = then_part.split(' else ')
       IF Cardinality(ElsePositions(then_part)) # 1 THEN Fails("ValueError")
       ELSE Lines(<<head,
                    RetLine(indent_level + 1,
                            StripTag(SubSeq(then_part, 1,
                                            Min(ElsePositions(then_part)) - 1))),
                    RetLine(indent_level,
                            StripTag(SubSeq(then_part,
                                            Min(ElsePositions(then_part)) + 1,
                                            Len(then_part))))>>)
  ELSE \* f"    {ctes_ltr}": the return line, one level deeper
       Concat(Lines(<<head>>), AddConstantsOrLiterals(indent_level + 1, then_part))

ProcessWhen(parts, indent_level) ==
  ProcessThenPart(IfLine(indent_level,
                         ExistSubstitution(OpSubstitution(parts.condition))),
                  parts.then_part, indent_level)

ProcessOrReturn(result, statement, indent_level) ==
  IF result.exc # "" \/ result.lines # <<>> THEN result
  ELSE ProcessWhen(ExtractNestedStatementParts(statement), indent_level)

ProcessStatement(statement, indent_level) ==
  ProcessOrReturn(AddConstantsOrLiterals(indent_level, statement),
                  statement, indent_level)

\* condition.count('then '): a then followed by a space
ThenCount(condition) ==
  Cardinality({j \in Positions(condition, "then") : j < Len(condition)})

\* ConditionParser._if_then_else_builder: the last statement must not be a
\* when without a default; the lines of all statements, in order
RECURSIVE BuildFrom(_, _)
BuildFrom(conditions, i) ==
  IF i > Len(conditions) THEN Lines(<<>>)
  ELSE IF /\ i = Len(conditions)
          /\ \/ ThenCount(conditions[i]) = 1 /\ ElsePositions(conditions[i]) = {}
             \/ ThenCount(conditions[i]) > 1
  THEN Fails("Exception")
  ELSE Concat(ProcessStatement(conditions[i], 1), BuildFrom(conditions, i + 1))

IfThenElseBuilder(conditions) == BuildFrom(conditions, 1)

\* the words of kind k of all statements (Utils.extract_constants,
\* Utils.extract_jsonpath_variables)
WordsOfKind(conditions, k) ==
  UNION {{conditions[i][j].s :
            j \in {x \in 1..Len(conditions[i]) : conditions[i][x].k = k}} :
         i \in 1..Len(conditions)}

\* the generated function of a body: consts are the local bindings emitted
\* by _constants_builder (self.states[c]['name'] raises KeyError for a tag
\* that state_refs does not hold); params maps each parameter to its
\* JSONPath (Utils.build_jsonpath_params_mapping)
GeneratedFunction(tags, paths, body, states) ==
  IF \E c \in tags : c \notin DOMAIN states
  THEN [exc |-> "KeyError", lines |-> <<>>, consts |-> <<>>, params |-> <<>>]
  ELSE IF body.exc # ""
  THEN [exc |-> body.exc, lines |-> <<>>, consts |-> <<>>, params |-> <<>>]
  ELSE [exc |-> "", lines |-> body.lines,
        consts |-> [n \in {SafeName(c) : c \in tags} |->
                      StrV(states[CHOOSE c \in tags : SafeName(c) = n])],
        params |-> [n \in {SigParam(p) : p \in paths} |->
                      CHOOSE p \in paths : SigParam(p) = n]]

\* ConditionParser.parse: the generated function, or the exception raised
\* before anything is saved
Parse(conditions, states) ==
  GeneratedFunction(WordsOfKind(conditions, "tag"), WordsOfKind(conditions, "path"),
                    IfThenElseBuilder(conditions), states)

(***************************************************************************)
(* Python: syntax and evaluation of the generated function.                *)
(***************************************************************************)
\* a '#' starts a comment: the rest of the line is dropped
StripComment(toks) ==
  LET at == {i \in 1..Len(toks) : toks[i].k = "tag"} IN
  IF at = {} THEN toks ELSE SubSeq(toks, 1, Min(at) - 1)

\* words of the vocabulary that Python reads as plain identifiers
IdentWords ==
  {"when", "then", "exist", "gt", "lt", "eq", "neq", "gte", "lte",
   "true", "false", "null"}

IsAtom(w) == w.k \in {"name", "num", "str"} \/ (w.k = "kw" /\ w.s \in IdentWords)
IsCmpOp(w) == w.k = "kw" /\ w.s \in {">", "<", "==", "!=", ">=", "<="}

\* comparison: operand (operator operand)*
ChainOK(t) ==
  /\ Len(t) % 2 = 1
  /\ \A i \in 1..Len(t) : IF i % 2 = 1 THEN IsAtom(t[i]) ELSE IsCmpOp(t[i])

\* not_test: any number of not, then a comparison (words lo..hi of t)
NotOK(t, lo, hi) ==
  LET first == Min({i \in lo..(hi + 1) : i = hi + 1 \/ ~IsKw(t[i], "not")}) IN
  ChainOK(SubSeq(t, first, hi))

\* a Python expression over the vocabulary: not_tests separated by and / or
ExprOK(t) ==
  LET seps == {0, Len(t) + 1} \cup Positions(t, "and") \cup Positions(t, "or") IN
  \A lo \in seps :
    lo <= Len(t) => NotOK(t, lo + 1, Min({x \in seps : x > lo}) - 1)

\* the module compiles: every line is well formed (a comment in an if line
\* swallows its colon), every if has an indented body and nothing else is
\* indented deeper than the line before it
SyntaxOK(lines) ==
  \A i \in 1..Len(lines) :
    /\ IF lines[i].kind = "if"
       THEN /\ StripComment(lines[i].toks) = lines[i].toks
            /\ ExprOK(lines[i].toks)
            /\ i < Len(lines) /\ lines[i + 1].ind = lines[i].ind + 1
       ELSE /\ ExprOK(StripComment(lines[i].toks))
            /\ i < Len(lines) => lines[i + 1].ind <= lines[i].ind

Numeric(v) == v.t \in {"int", "bool"}

PyEq(a, b) ==
  IF Numeric(a) /\ Numeric(b) THEN a.n = b.n
  ELSE IF a.t = "str" /\ b.t = "str" THEN a.s = b.s
  ELSE a.t = "none" /\ b.t = "none"

\* a comparison of two values; ordering a number with a string or None is a
\* TypeError (string with string does not occur in the vocabulary)
Compare(op, a, b) ==
  CASE op = "==" -> Ret(BoolV(PyEq(a, b)))
    [] op = "!=" -> Ret(BoolV(~PyEq(a, b)))
    [] OTHER ->
       IF ~(Numeric(a) /\ Numeric(b)) THEN Raise("TypeError")
       ELSE CASE op = ">" -> Ret(BoolV(a.n > b.n))
              [] op = "<" -> Ret(BoolV(a.n < b.n))
              [] op = ">=" -> Ret(BoolV(a.n >= b.n))
              [] OTHER -> Ret(BoolV(a.n <= b.n))

\* an operand: a literal, or a name looked up in the function's namespace
EvalAtom(w, env) ==
  CASE w.k = "num" -> Ret(IntV(w.n))
    [] w.k = "str" -> Ret(StrV(w.s))
    [] OTHER -> IF w.s \in DOMAIN env THEN Ret(env[w.s]) ELSE Raise("NameError")

RECURSIVE EvalChain(_, _)
EvalChain(t, env) ==
  LET a == EvalAtom(t[1], env) IN
  IF Len(t) = 1 \/ a.tag = "raise" THEN a
  ELSE LET b == EvalAtom(t[3], env) IN
       IF b.tag = "raise" THEN b
       ELSE LET c == Compare(t[2].s, a.v, b.v) IN
            IF c.tag = "raise" \/ Len(t) = 3 \/ ~Truthy(c.v) THEN c
            ELSE EvalChain(SubSeq(t, 3, Len(t)), env)

RECURSIVE EvalNot(_, _)
EvalNot(t, env) ==
  IF IsKw(t[1], "not")
  THEN LET r == EvalNot(Tail(t), env) IN
       IF r.tag = "raise" THEN r ELSE Ret(BoolV(~Truthy(r.v)))
  ELSE EvalChain(t, env)

RECURSIVE EvalAnd(_, _)
EvalAnd(t, env) ==
  LET at == Positions(t, "and") IN
  IF at = {} THEN EvalNot(t, env)
  ELSE LET l == EvalNot(SubSeq(t, 1, Min(at) - 1), env) IN
       IF l.tag = "raise" \/ ~Truthy(l.v) THEN l
       ELSE EvalAnd(SubSeq(t, Min(at) + 1, Len(t)), env)

\* value of an expression; and / or short-circuit from left to right
RECURSIVE EvalExpr(_, _)
EvalExpr(t, env) ==
  LET at == Positions(t, "or") IN
  IF at = {} THEN EvalAnd(t, env)
  ELSE LET l == EvalAnd(SubSeq(t, 1, Min(at) - 1), env) IN
       IF l.tag = "raise" \/ Truthy(l.v) THEN l
       ELSE EvalExpr(SubSeq(t, Min(at) + 1, Len(t)), env)

\* the first line after line i that is not inside its block
AfterBlock(lines, i) ==
  LET at == {j \in (i + 1)..Len(lines) : lines[j].ind <= lines[i].ind} IN
  IF at = {} THEN Len(lines) + 1 ELSE Min(at)

\* execution of the function body from line i on; falling off the end
\* returns None
RECURSIVE ExecFrom(_, _, _)
ExecFrom(lines, i, env) ==
  IF i > Len(lines) THEN Ret(NoneV)
  ELSE IF lines[i].kind = "return" THEN EvalExpr(StripComment(lines[i].toks), env)
  ELSE LET c == EvalExpr(lines[i].toks, env) IN
       IF c.tag = "raise" THEN c
       ELSE IF Truthy(c.v) THEN ExecFrom(lines, i + 1, env)
       ELSE ExecFrom(lines, AfterBlock(lines, i), env)

\* the namespace of a call: the builtin constants, the parameters, then the
\* local constants assigned at the top of the body
Namespace(fn, args) ==
  [n \in {"True", "False", "None"} \cup DOMAIN args \cup DOMAIN fn.consts |->
     IF n \in DOMAIN fn.consts THEN fn.consts[n]
     ELSE IF n \in DOMAIN args THEN args[n]
     ELSE IF n = "None" THEN NoneV ELSE BoolV(n = "True")]

\* Utils.create_jsonpath_wrapper: extract every parameter with its JSONPath
\* and call the cached function
JsonpathWrapper(fn, data) ==
  LET args == [n \in DOMAIN fn.params |-> JsonpathQuery(data, fn.params[n])] IN
  ExecFrom(fn.lines, 1, Namespace(fn, args))

(***************************************************************************)
(* States and machines.                                                    *)
(***************************************************************************)
\* State.__init__: timeout if timeout else 60 (0 stands for "not given")
DefaultTimeout == 60
StateTimeoutOf(timeout) == IF timeout # 0 THEN timeout ELSE DefaultTimeout

\* Lambda.__init__: a task state around a user handler
Lambda(name, next_state, timeout) ==
  [name |-> name, type |-> "lambda", next_state |-> next_state,
   timeout |-> StateTimeoutOf(timeout), statements |-> <<>>, states |-> <<>>]

\* Choice.__init__: next_state None and timeout 1; the statements are
\* compiled into the decision function at construction
ChoiceTimeout == 1
Choice(name, statements, states) ==
  [name |-> name, type |-> "choice", next_state |-> NoneV,
   timeout |-> StateTimeoutOf(ChoiceTimeout), statements |-> statements,
   states |-> states]

\* the decision function a constructed choice holds (jsonpath_wrapper)
DecisionFunction(choice) == Parse(choice.statements, choice.states)

\* construction of the choice succeeds: the statements compile and the
\* generated module loads
Loads(fn) == fn.exc = "" /\ SyntaxOK(fn.lines)
Constructs(choice) == Loads(DecisionFunction(choice))

RECURSIVE SumTimeouts(_, _)
SumTimeouts(machine_tree, i) ==
  IF i > Len(machine_tree) THEN 0
  ELSE machine_tree[i].timeout + SumTimeouts(machine_tree, i + 1)

\* StateMachine.__init__ without the adjustment of lines 57-61
StateMachineKeepsDeclared(machine_tree, timeout) ==
  LET states_timeout_sum == SumTimeouts(machine_tree, 1) IN
  [head_lambda |-> machine_tree[1].name,
   machine_tree |-> [n \in {machine_tree[i].name : i \in 1..Len(machine_tree)} |->
                       machine_tree[CHOOSE i \in 1..Len(machine_tree) :
                          /\ machine_tree[i].name = n
                          /\ \A j \in (i + 1)..Len(machine_tree) : machine_tree[j].name # n]],
   timeout |-> IF timeout = 0 THEN states_timeout_sum ELSE timeout]

\* StateMachine.__init__ (timeout 0 stands for None): the head is the first
\* state, the registry maps each name to its state, and a declared timeout
\* smaller than the sum of the state timeouts is replaced by the sum + 1
StateMachine(machine_tree, timeout) ==
  LET states_timeout_sum == SumTimeouts(machine_tree, 1) IN
  [head_lambda |-> machine_tree[1].name,
   machine_tree |-> [n \in {machine_tree[i].name : i \in 1..Len(machine_tree)} |->
                       machine_tree[CHOOSE i \in 1..Len(machine_tree) :
                          /\ machine_tree[i].name = n
                          /\ \A j \in (i + 1)..Len(machine_tree) : machine_tree[j].name # n]],
   timeout |-> IF timeout = 0 THEN states_timeout_sum
               ELSE IF states_timeout_sum > timeout THEN states_timeout_sum + 1
               ELSE timeout]

\* the statement of the routing scenario:
\* when $.value gt 10 and $.value lt 53 then #X else #Y
RoutingStatement ==
  <<Kw("when"), Path("value"), Kw("gt"), Num(10), Kw("and"),
    Path("value"), Kw("lt"), Num(53), Kw("then"), Tag("X"), Kw("else"), Tag("Y")>>

\* the machines the driver is run on: a linear machine, a machine whose
\* choice loops back to the head or goes on to a state with an unregistered
\* successor, and a machine whose choice may select an unregistered name
Machines ==
  {StateMachine(<<Lambda("a", StrV("b"), 1), Lambda("b", NoneV, 2)>>, 0),
   StateMachine(<<Lambda("a", StrV("c"), 1),
                  Choice("c", <<RoutingStatement>>, [X |-> "x_state", Y |-> "a"]),
                  Lambda("x_state", StrV("ghost"), 1)>>, 2),
   StateMachine(<<Lambda("a", StrV("c"), 2),
                  Choice("c", <<RoutingStatement>>, [X |-> "ghost", Y |-> "x_state"]),
                  Lambda("x_state", NoneV, 1)>>, 0)}

\* the events given to a run and returned by user handlers
DriverEvents ==
  {NoneEvent, Event([value |-> Missing]), Event([value |-> IntV(5)]),
   Event([value |-> IntV(50)])}

\* the exceptions a user handler raises
HandlerExceptions == {"ValueError", "TimeoutError"}

\* bounds of the model: the clock and the number of handler dispatches
MaxTime == 5
MaxDispatch == 4

\* "no state": machine_tree.get of an unregistered name
NoState == "<no state>"

\* bool(event) for "entry_point_event or None": an empty document is falsy
EventTruthy(e) == ~e.none /\ \E k \in DOMAIN e.doc : e.doc[k] # Missing

\* machine_tree.get(next_state)
GetState(m, next_state) ==
  IF next_state.t = "str" /\ next_state.s \in DOMAIN m.machine_tree
  THEN next_state.s ELSE NoState

\* faulty variant of DeadlineElapsed: the loop has no deadline test
DeadlineNeverElapsed(time, start, timeout) == FALSE

\* faulty variant of DeadlineElapsed: the deadline fires at equality
DeadlineElapsedAtEquality(time, start, timeout) == time - start >= timeout

\* the global deadline test of line 83
DeadlineElapsed(time, start, timeout) == time - start > timeout

\* future.result(timeout=state_timeout) gives up
WaitElapsed(time, dispatched, state_timeout) == time - dispatched >= state_timeout

\* faulty variant of HandlerResult: the event is not replaced by the result
HandlerInput(thread) == thread.input

\* line 115: the event becomes the value the handler returned
HandlerResult(thread) == thread.ret

\* lines 159-169: an exception raised inside the try block is wrapped
WrappedError(name, cause) ==
  [kind |-> "StateMachineExecutionError", state |-> name, cause |-> cause]

\* faulty variant of NotFoundError: raised inside the try block, so wrapped
NotFoundWrapped(name) == WrappedError(name, "StateNotFoundError")

\* line 94: StateNotFoundError, raised outside the try block
NotFoundError(name) == [kind |-> "StateNotFoundError", state |-> name, cause |-> ""]

\* faulty variant of TimedOutError: raised outside the try block, unwrapped
TimedOutUnwrapped(name) == [kind |-> "TimeoutError", state |-> name, cause |-> ""]

\* lines 125-127 and 159-169: the driver's own TimeoutError ("State ... timed
\* out after ... seconds"), raised inside the try block and so wrapped
TimedOutError(name) == WrappedError(name, "StateTimedOut")

VARIABLES
  machine,        \* the machine run
  next_of,        \* the next_state field of every state object
  now,            \* the clock t.time()
  start_time,     \* run: start_time
  entry,          \* run: the argument entry_point_event
  pc,             \* run: "boundary", "waiting", "shutdown", "done", "failed"
  event,          \* run: event
  step_lambda,    \* run: step_lambda (a registered name or NoState)
  next_state,     \* run: next_state
  context,        \* run: context
  threads,        \* the handler calls submitted so far, in order
  dispatched_at,  \* the time of the last submit
  timed_out,      \* history: the wait of line 115 elapsed on a running handler
  result,         \* the value run returned
  err,            \* the exception run raised
  args,           \* the arguments of the constructor calls made so far
  workflows,      \* the machines constructed so far, in order
  parallel,       \* the ParallelHandler object
  futures,        \* ParallelHandler.handler: the sub-machine runs submitted
  results,        \* ParallelHandler.handler: results
  cache_dir,      \* the files of the directory conditions_cache
  builds,         \* the Choice constructions made so far, in order
  savers,         \* the processes inside _save_to_cache, each with its position
  emitted,        \* run: the messages logged by _i, in order
  runs            \* the calls of run in progress on one machine object, one per caller thread

parallel_vars == <<args, workflows, parallel, futures, results>>
cache_vars == <<cache_dir, builds, savers>>

vars == <<machine, next_of, now, start_time, entry, pc, event, step_lambda,
          next_state, context, threads, dispatched_at, timed_out, result, err,
          parallel_vars, cache_vars, emitted, runs>>

\* nothing constructed, no parallel state called, an empty cache directory
NoParallel ==
  /\ args = <<>>
  /\ workflows = <<>>
  /\ parallel = NoneV
  /\ futures = <<>>
  /\ results = <<>>

NoCache ==
  /\ cache_dir = <<>>
  /\ builds = <<>>
  /\ savers = <<>>

NoError == [kind |-> "", state |-> NoneV, cause |-> ""]

\* run, lines 63-80: the state reached before the first pass of the loop
Init ==
  /\ NoParallel
  /\ NoCache
  /\ machine \in Machines
  /\ next_of = [n \in DOMAIN machine.machine_tree |-> machine.machine_tree[n].next_state]
  /\ now = 0
  /\ start_time = 0
  /\ entry \in DriverEvents
  /\ event = (IF EventTruthy(entry) THEN entry ELSE NoneEvent)
  /\ step_lambda = machine.head_lambda
  /\ next_state = StrV(machine.head_lambda)
  /\ context = [state_name |-> StrV(machine.head_lambda)]
  /\ pc = "boundary"
  /\ threads = <<>>
  /\ dispatched_at = 0
  /\ timed_out = FALSE
  /\ result = NoneEvent
  /\ err = NoError
  /\ emitted = <<>>
  /\ runs = <<>>

Current == threads[Len(threads)]
CurrentState == machine.machine_tree[step_lambda]

\* lines 83-88: the machine deadline has passed at the top of the loop
GlobalTimeout ==
  /\ pc = "boundary"
  /\ DeadlineElapsed(now, start_time, machine.timeout)
  /\ pc' = "failed"
  /\ err' = [kind |-> "TimeoutError", state |-> NoneV, cause |-> ""]
  /\ UNCHANGED <<parallel_vars, cache_vars>>
  /\ UNCHANGED <<emitted, runs>>
  /\ UNCHANGED <<machine, next_of, now, start_time, entry, event, step_lambda,
                 next_state, context, threads, dispatched_at, timed_out, result>>

\* lines 90-94: the state pointer is unresolved
StateNotFound ==
  /\ pc = "boundary"
  /\ ~DeadlineElapsed(now, start_time, machine.timeout)
  /\ step_lambda = NoState
  /\ pc' = "failed"
  /\ err' = NotFoundError(next_state)
  /\ UNCHANGED <<parallel_vars, cache_vars>>
  /\ UNCHANGED <<emitted, runs>>
  /\ UNCHANGED <<machine, next_of, now, start_time, entry, event, step_lambda,
                 next_state, context, threads, dispatched_at, timed_out, result>>

\* lines 96, 109-113: log the entry and submit the handler of the state to a
\* worker; Lambda.handler and Choice.handler begin with
\* context["timestamp"] = time(), before the user handler or the decision
Dispatch ==
  /\ pc = "boundary"
  /\ ~DeadlineElapsed(now, start_time, machine.timeout)
  /\ step_lambda # NoState
  /\ Len(threads) < MaxDispatch
  /\ threads' = Append(threads, [state |-> step_lambda, input |-> event,
                                 status |-> "running", ret |-> NoneEvent, exc |-> ""])
  /\ dispatched_at' = now
  /\ pc' = "waiting"
  /\ emitted' = Append(emitted, [message |-> "Entering state", state |-> next_state,
                                  event |-> event])
  /\ context' = [timestamp |-> now] @@ context
  /\ UNCHANGED <<parallel_vars, cache_vars, runs>>
  /\ UNCHANGED <<machine, next_of, now, start_time, entry, event, step_lambda,
                 next_state, timed_out, result, err>>

\* faulty variant of LambdaReturns: the handler of a task state clears the
\* next_state of its state, as if it were a decision
LambdaReturnsClearsNextState ==
  \E i \in 1..Len(threads) : \E e \in DriverEvents :
    /\ threads[i].status = "running"
    /\ machine.machine_tree[threads[i].state].type = "lambda"
    /\ threads' = [threads EXCEPT ![i].status = "returned", ![i].ret = e]
    /\ next_of' = [next_of EXCEPT ![threads[i].state] = NoneV]
    /\ UNCHANGED <<parallel_vars, cache_vars>>
    /\ UNCHANGED <<emitted, runs>>
    /\ UNCHANGED <<machine, now, start_time, entry, pc, event, step_lambda,
                   next_state, context, dispatched_at, timed_out, result, err>>

\* Lambda.handler: the user handler returns some event
LambdaReturns ==
  \E i \in 1..Len(threads) : \E e \in DriverEvents :
    /\ threads[i].status = "running"
    /\ machine.machine_tree[threads[i].state].type = "lambda"
    /\ threads' = [threads EXCEPT ![i].status = "returned", ![i].ret = e]
    /\ UNCHANGED <<parallel_vars, cache_vars>>
    /\ UNCHANGED <<emitted, runs>>
    /\ UNCHANGED <<machine, next_of, now, start_time, entry, pc, event, step_lambda,
                   next_state, context, dispatched_at, timed_out, result, err>>

\* Lambda.handler: the user handler raises
LambdaRaises ==
  \E i \in 1..Len(threads) : \E x \in HandlerExceptions :
    /\ threads[i].status = "running"
    /\ machine.machine_tree[threads[i].state].type = "lambda"
    /\ threads' = [threads EXCEPT ![i].status = "raised", ![i].exc = x]
    /\ UNCHANGED <<parallel_vars, cache_vars>>
    /\ UNCHANGED <<emitted, runs>>
    /\ UNCHANGED <<machine, next_of, now, start_time, entry, pc, event, step_lambda,
                   next_state, context, dispatched_at, timed_out, result, err>>

\* faulty variant of ChoiceHandler: the decision is computed but next_state
\* is not assigned
ChoiceHandlerKeepsNextState ==
  \E i \in 1..Len(threads) :
    /\ threads[i].status = "running"
    /\ machine.machine_tree[threads[i].state].type = "choice"
    /\ \E decision \in {JsonpathWrapper(
                            DecisionFunction(machine.machine_tree[threads[i].state]),
                            threads[i].input)} :
         IF decision.tag = "raise"
         THEN threads' = [threads EXCEPT ![i].status = "raised",
                                         ![i].exc = decision.exc]
         ELSE threads' = [threads EXCEPT ![i].status = "returned",
                                         ![i].ret = threads[i].input]
    /\ UNCHANGED <<parallel_vars, cache_vars>>
    /\ UNCHANGED <<emitted, runs>>
    /\ UNCHANGED <<machine, next_of, now, start_time, entry, pc, event, step_lambda,
                   next_state, context, dispatched_at, timed_out, result, err>>

\* Choice.handler: next_state becomes what the decision function returns for
\* the event, and the event is returned; an exception of the decision
\* function leaves next_state as it was
ChoiceHandler ==
  \E i \in 1..Len(threads) :
    /\ threads[i].status = "running"
    /\ machine.machine_tree[threads[i].state].type = "choice"
    /\ \E decision \in {JsonpathWrapper(
                            DecisionFunction(machine.machine_tree[threads[i].state]),
                            threads[i].input)} :
         IF decision.tag = "raise"
         THEN /\ threads' = [threads EXCEPT ![i].status = "raised",
                                            ![i].exc = decision.exc]
              /\ UNCHANGED next_of
         ELSE /\ next_of' = [next_of EXCEPT ![threads[i].state] = decision.v]
              /\ threads' = [threads EXCEPT ![i].status = "returned",
                                            ![i].ret = threads[i].input]
    /\ UNCHANGED <<parallel_vars, cache_vars>>
    /\ UNCHANGED <<emitted, runs>>
    /\ UNCHANGED <<machine, now, start_time, entry, pc, event, step_lambda,
                   next_state, context, dispatched_at, timed_out, result, err>>

\* lines 115, 129-157: the handler returned in time; take its result as the
\* event, read the state's next_state, log the exit (and the completion,
\* which carries no output), return or advance to the next state
ResultReturned ==
  /\ pc = "waiting"
  /\ Current.status = "returned"
  /\ event' = HandlerResult(Current)
  /\ next_state' = next_of[step_lambda]
  /\ IF next_state'.t = "none"
     THEN /\ pc' = "done"
          /\ result' = event'
          /\ emitted' = emitted \o <<[message |-> "Exiting state",
                                       state |-> context.state_name, event |-> event'],
                                      [message |-> "Execution completed successfully."]>>
          /\ UNCHANGED <<context, step_lambda>>
     ELSE /\ context' = [context EXCEPT !.state_name = next_state']
          /\ step_lambda' = GetState(machine, next_state')
          /\ pc' = "boundary"
          /\ emitted' = Append(emitted, [message |-> "Exiting state",
                                          state |-> context.state_name, event |-> event'])
          /\ UNCHANGED result
  /\ UNCHANGED <<parallel_vars, cache_vars, runs>>
  /\ UNCHANGED <<machine, next_of, now, start_time, entry, threads,
                 dispatched_at, timed_out, err>>

\* faulty variant of StateTimeout: the driver gives up the wait and goes
\* back to the top of the loop while the worker is still busy
StateTimeoutRetries ==
  /\ pc = "waiting"
  /\ Current.status = "running"
  /\ WaitElapsed(now, dispatched_at, CurrentState.timeout)
  /\ pc' = "boundary"
  /\ timed_out' = TRUE
  /\ UNCHANGED <<parallel_vars, cache_vars>>
  /\ UNCHANGED <<emitted, runs>>
  /\ UNCHANGED <<machine, next_of, now, start_time, entry, event, step_lambda,
                 next_state, context, threads, dispatched_at, result, err>>

\* lines 116-127: the wait for the result elapsed; the TimeoutError raised
\* here leaves the with block, whose exit waits for the worker
StateTimeout ==
  /\ pc = "waiting"
  /\ Current.status = "running"
  /\ WaitElapsed(now, dispatched_at, CurrentState.timeout)
  /\ pc' = "shutdown"
  /\ timed_out' = TRUE
  /\ UNCHANGED <<parallel_vars, cache_vars>>
  /\ UNCHANGED <<emitted, runs>>
  /\ UNCHANGED <<machine, next_of, now, start_time, entry, event, step_lambda,
                 next_state, context, threads, dispatched_at, result, err>>

\* lines 115-127, 159-169: future.result re-raises the handler's exception.
\* A TimeoutError is caught by the except clause of line 116 and replaced by
\* the driver's own "timed out" error; anything else is wrapped at line 168
HandlerRaised ==
  /\ pc = "waiting"
  /\ Current.status = "raised"
  /\ IF Current.exc = "TimeoutError"
     THEN pc' = "shutdown" /\ UNCHANGED err
     ELSE /\ pc' = "failed"
          /\ err' = WrappedError(next_state, Current.exc)
  /\ UNCHANGED <<parallel_vars, cache_vars>>
  /\ UNCHANGED <<emitted, runs>>
  /\ UNCHANGED <<machine, next_of, now, start_time, entry, event, step_lambda,
                 next_state, context, threads, dispatched_at, timed_out, result>>

\* exit of the with block (executor.shutdown(wait=True)) once the worker has
\* finished, then lines 159-169: the "timed out" TimeoutError is wrapped
ExecutorShutdown ==
  /\ pc = "shutdown"
  /\ Current.status # "running"
  /\ pc' = "failed"
  /\ err' = TimedOutError(next_state)
  /\ UNCHANGED <<parallel_vars, cache_vars>>
  /\ UNCHANGED <<emitted, runs>>
  /\ UNCHANGED <<machine, next_of, now, start_time, entry, event, step_lambda,
                 next_state, context, threads, dispatched_at, timed_out, result>>

\* time passes while the run is alive; a timed wait does not outlast its
\* timeout
Tick ==
  /\ pc \in {"boundary", "waiting", "shutdown"}
  /\ now < MaxTime
  /\ ~(pc = "waiting" /\ Current.status = "running"
       /\ WaitElapsed(now, dispatched_at, CurrentState.timeout))
  /\ now' = now + 1
  /\ UNCHANGED <<parallel_vars, cache_vars>>
  /\ UNCHANGED <<emitted, runs>>
  /\ UNCHANGED <<machine, next_of, start_time, entry, pc, event, step_lambda,
                 next_state, context, threads, dispatched_at, timed_out, result, err>>

Next ==
  \/ GlobalTimeout
  \/ StateNotFound
  \/ Dispatch
  \/ LambdaReturns
  \/ LambdaRaises
  \/ ChoiceHandler
  \/ ResultReturned
  \/ StateTimeout
  \/ HandlerRaised
  \/ ExecutorShutdown
  \/ Tick

Spec == Init /\ [][Next]_vars

(***************************************************************************)
(* Properties of the driver.                                               *)
(***************************************************************************)
\* C1: the states run as one chain: every handler call after the first gets
\* as input exactly what the call before it returned, and a run that
\* returns does so from a state whose next_state is None, with that state's
\* return value
C1_Chain ==
  /\ \A i \in 2..Len(threads) :
       /\ threads[i - 1].status = "returned"
       /\ threads[i].input = threads[i - 1].ret
  /\ pc = "done" =>
       /\ Current.status = "returned"
       /\ next_of[Current.state] = NoneV
       /\ result = Current.ret

\* a run returned after two handlers, the first of which changed the event
C1_Witness ==
  /\ pc = "done"
  /\ Len(threads) >= 2
  /\ threads[1].ret # threads[1].input
  /\ threads[2].ret # threads[2].input

\* C2: when a handler raises, the run fails with StateMachineExecutionError
\* naming the state whose handler raised, with the handler's exception as
\* cause, and the handler that raised is the last one called
C2_HandlerExceptionWrapped ==
  /\ \A i \in 1..(Len(threads) - 1) : threads[i].status # "raised"
  /\ (pc = "failed" /\ Len(threads) > 0 /\ Current.status = "raised" /\ ~timed_out) =>
       err = WrappedError(StrV(Current.state), Current.exc)

\* C3 as stated: a run that follows a name missing from the registry fails
\* with StateNotFoundError
C3_UnresolvedIsNotFound ==
  (pc = "failed" /\ step_lambda = NoState) => err.kind = "StateNotFoundError"

\* C3: a run that follows a name missing from the registry fails, without
\* calling another handler, with StateNotFoundError itself (not wrapped),
\* unless the machine deadline has passed at that boundary, in which case it
\* fails with TimeoutError
C3_UnresolvedFails ==
  step_lambda = NoState =>
    /\ pc \in {"boundary", "failed"}
    /\ Current.status = "returned" /\ next_of[Current.state] = next_state
    /\ next_state.s \notin DOMAIN machine.machine_tree
    /\ pc = "failed" =>
         IF now - start_time > machine.timeout
         THEN err.kind = "TimeoutError"
         ELSE err = [kind |-> "StateNotFoundError", state |-> next_state, cause |-> ""]

\* a choice selected an unregistered name and the run failed on it in time
C3_Witness ==
  /\ pc = "failed"
  /\ step_lambda = NoState
  /\ err.kind = "StateNotFoundError"
  /\ machine.machine_tree[Current.state].type = "choice"

\* C4 as stated: a run that fails because a handler outlived its state's
\* timeout fails with a kind other than the one used for handler exceptions
C4_TimeoutKindDistinct ==
  (pc = "failed" /\ timed_out) => err.kind # "StateMachineExecutionError"

\* C4: a run that fails because a handler outlived its state's timeout fails
\* with StateMachineExecutionError, the kind used for handler exceptions,
\* naming the state, its cause being the driver's "timed out" TimeoutError
C4_TimeoutWrapped ==
  (pc = "failed" /\ timed_out) =>
    /\ err.kind = "StateMachineExecutionError"
    /\ err.state = StrV(Current.state)
    /\ err.cause = "StateTimedOut"

\* a handler outlived its timeout and the run failed
C4_Witness ==
  /\ pc = "failed"
  /\ timed_out
  /\ now - dispatched_at >= machine.machine_tree[Current.state].timeout

\* C5: once the deadline of a state has elapsed, the run can fail at once,
\* whether or not the handler has finished
C5_FailsWithoutWaiting ==
  (timed_out /\ pc # "failed") => ENABLED ExecutorShutdown

\* C6: leaving a state boundary, the run fails with TimeoutError, unwrapped
\* and without calling the state's handler, exactly when now - start_time is
\* strictly greater than the machine timeout; away from a boundary the run
\* never fails with TimeoutError, however late it is
C6_GlobalDeadline ==
  [][/\ (pc = "boundary" /\ pc' # "boundary") =>
          IF now - start_time > machine.timeout
          THEN pc' = "failed" /\ err'.kind = "TimeoutError" /\ threads' = threads
          ELSE err'.kind # "TimeoutError"
     /\ (pc # "boundary" /\ pc' = "failed") => err'.kind # "TimeoutError"]_vars

\* the machine deadline failed a run at a boundary after a handler ran
C6_Witness ==
  /\ pc = "failed"
  /\ err.kind = "TimeoutError"
  /\ Len(threads) >= 1
  /\ Current.status = "returned"

\* C7: at most one handler executes at any moment, and a handler is started
\* only after the one called before it has finished
C7_OneActiveState ==
  /\ Cardinality({i \in 1..Len(threads) : threads[i].status = "running"}) <= 1
  /\ \A i \in 1..(Len(threads) - 1) : threads[i].status # "running"

\* a second handler is executing
C7_Witness ==
  /\ Len(threads) >= 2
  /\ Current.status = "running"

(***************************************************************************)
(* A choice called on its own: Choice.handler applied to events, one call  *)
(* after the other, on the same choice object.                             *)
(***************************************************************************)
When(condition, branch) == <<Kw("when")>> \o condition \o <<Kw("then")>> \o branch
WhenElse(condition, a, b) == When(condition, <<Tag(a), Kw("else"), Tag(b)>>)

\* $.value gt 10 and $.value lt 53
RoutingCondition ==
  <<Path("value"), Kw("gt"), Num(10), Kw("and"), Path("value"), Kw("lt"), Num(53)>>

\* conditions of the language: comparisons joined by and, or, not
Conditions ==
  {RoutingCondition,
   <<Path("value"), Kw("gte"), Num(50), Kw("or"), Path("value"), Kw("lt"), Num(10)>>,
   <<Kw("not"), Path("value"), Kw("eq"), Num(5)>>,
   <<Num(10), Kw("lte"), Path("value"), Kw("and"), Kw("not"), Path("value"),
     Kw("neq"), Num(50), Kw("or"), Path("score"), Kw("gt"), Num(70)>>}

AB == [A |-> "a_state", B |-> "b_state"]

Tiers == [premium |-> "premium_user", basic |-> "basic_user",
          minor |-> "minor_user", default |-> "default_state"]

\* statement lists: a when per line and a trailing unconditional statement
\* (a tag, or a quoted literal)
OrderedLists ==
  {<<When(<<Path("score"), Kw("gte"), Num(90)>>, <<Tag("premium")>>),
     When(<<Path("score"), Kw("gte"), Num(70)>>, <<Tag("basic")>>),
     When(<<Path("age"), Kw("lt"), Num(18)>>, <<Tag("minor")>>),
     <<Tag("default")>> >>,
   <<When(<<Path("value"), Kw("gt"), Num(10)>>, <<Tag("basic")>>),
     When(<<Path("value"), Kw("gt"), Num(5)>>, <<Tag("minor")>>),
     <<Lit("fallback")>> >>}

Matches == [match |-> "match_state", default |-> "default_state"]
           @@ ("no-match" :> "no_match_state")

\* when $.v gt 10 then when $.v gt 20 then when $.v gt 30 then #match else
\* #no-match, followed by #default: nested whens, the innermost with an else
FallThrough ==
  <<When(<<Path("v"), Kw("gt"), Num(10)>>,
         When(<<Path("v"), Kw("gt"), Num(20)>>,
              When(<<Path("v"), Kw("gt"), Num(30)>>,
                   <<Tag("match"), Kw("else"), Tag("no-match")>>))),
    <<Tag("default")>> >>

\* when $.age gte 18 then when $.score gt 70 then #premium else #basic else
\* #minor, followed by #default: an else for the inner and for the outer when
NestedElse ==
  <<When(<<Path("age"), Kw("gte"), Num(18)>>,
         When(<<Path("score"), Kw("gt"), Num(70)>>,
              <<Tag("premium"), Kw("else"), Tag("basic")>>)
         \o <<Kw("else"), Tag("minor")>>),
    <<Tag("default")>> >>

\* when exist $.p then #A else #B
ExistStatement == <<WhenElse(<<Kw("exist"), Path("p")>>, "A", "B")>>

\* the choices called on their own
Choices ==
  {Choice("c", <<WhenElse(c, "A", "B")>>, AB) : c \in Conditions}
  \cup {Choice("c", l, Tiers) : l \in OrderedLists \cup {NestedElse}}
  \cup {Choice("c", FallThrough, Matches), Choice("c", ExistStatement, AB)}

\* the events they are called with
ChoiceEvents ==
  {NoneEvent}
  \cup {Event([value |-> v]) :
          v \in {Missing} \cup {IntV(n) : n \in {5, 10, 11, 50, 52, 53}}}
  \cup {Event([score |-> x, age |-> y]) :
          x \in {Missing} \cup {IntV(n) : n \in {60, 75, 95}},
          y \in {Missing} \cup {IntV(n) : n \in {16, 25}}}
  \cup {Event([v |-> IntV(n)]) : n \in {9, 15, 25, 35}}
  \cup {Event([p |-> x]) : x \in {Missing, IntV(1), NoneV, NotMatches}}

InitChoice ==
  /\ NoParallel
  /\ NoCache
  /\ machine \in {StateMachine(<<c>>, 0) : c \in {x \in Choices : Constructs(x)}}
  /\ next_of = [n \in DOMAIN machine.machine_tree |-> machine.machine_tree[n].next_state]
  /\ pc = "direct"
  /\ threads = <<>>
  /\ now = 0
  /\ start_time = 0
  /\ entry = NoneEvent
  /\ event = NoneEvent
  /\ step_lambda = machine.head_lambda
  /\ next_state = NoneV
  /\ context = [state_name |-> NoneV]
  /\ dispatched_at = 0
  /\ timed_out = FALSE
  /\ result = NoneEvent
  /\ err = NoError
  /\ emitted = <<>>
  /\ runs = <<>>

\* a caller invokes choice.handler(event, context) once the previous call
\* is over
DirectCall ==
  /\ pc = "direct"
  /\ \A i \in 1..Len(threads) : threads[i].status # "running"
  /\ \E e \in ChoiceEvents :
       threads' = <<[state |-> machine.head_lambda, input |-> e,
                     status |-> "running", ret |-> NoneEvent, exc |-> ""]>>
  /\ UNCHANGED <<parallel_vars, cache_vars>>
  /\ UNCHANGED <<emitted, runs>>
  /\ UNCHANGED <<machine, next_of, now, start_time, entry, pc, event, step_lambda,
                 next_state, context, dispatched_at, timed_out, result, err>>

NextChoice ==
  \/ DirectCall
  \/ ChoiceHandler

SpecChoice == InitChoice /\ [][NextChoice]_vars

(***************************************************************************)
(* Properties of the choice.  Holds is the reading of a condition as it is *)
(* written: comparisons of numbers, not binding tighter than and, and      *)
(* tighter than or; a comparison with a value the document does not hold   *)
(* as a number does not hold.                                              *)
(***************************************************************************)
Known(w, doc) == w.k = "num" \/ (w.s \in DOMAIN doc /\ doc[w.s].t = "int")
NumberOf(w, doc) == IF w.k = "num" THEN w.n ELSE doc[w.s].n

ComparisonHolds(op, a, b) ==
  CASE op = "gt" -> a > b
    [] op = "lt" -> a < b
    [] op = "gte" -> a >= b
    [] op = "lte" -> a <= b
    [] op = "eq" -> a = b
    [] OTHER -> a # b

\* words lo..hi of c: some nots, then operand operator operand
NegationHolds(c, doc, lo, hi) ==
  LET truth == /\ Known(c[hi - 2], doc) /\ Known(c[hi], doc)
               /\ ComparisonHolds(c[hi - 1].s, NumberOf(c[hi - 2], doc),
                                   NumberOf(c[hi], doc))
  IN IF (hi - 2 - lo) % 2 = 0 THEN truth ELSE ~truth

\* words lo..hi of c: negations joined by and
ConjunctionHolds(c, doc, lo, hi) ==
  LET seps == {lo - 1, hi + 1} \cup {i \in Positions(c, "and") : lo <= i /\ i <= hi} IN
  \A x \in seps :
    x <= hi => NegationHolds(c, doc, x + 1, Min({y \in seps : y > x}) - 1)

Holds(c, doc) ==
  LET seps == {0, Len(c) + 1} \cup Positions(c, "or") IN
  \E x \in seps :
    x <= Len(c) /\ ConjunctionHolds(c, doc, x + 1, Min({y \in seps : y > x}) - 1)

\* every path of c resolves to an integer in the document
Resolves(c, doc) == \A i \in 1..Len(c) : c[i].k = "path" => Known(c[i], doc)

\* the calls of the choice that are over
Finished == {i \in 1..Len(threads) : threads[i].status # "running"}
TheChoice == machine.machine_tree[machine.head_lambda]

\* C8: a call of Choice.handler that returns hands back the event it was
\* given, and leaves in next_state what the decision function returns for
\* that event
C8_ChoiceHandler ==
  \A i \in 1..Len(threads) :
    threads[i].status = "returned" =>
      /\ threads[i].ret = threads[i].input
      /\ next_of[threads[i].state] =
           JsonpathWrapper(DecisionFunction(TheChoice), threads[i].input).v

\* a call returned with next_state set to a registered branch
C8_Witness ==
  /\ Len(threads) = 1
  /\ threads[1].status = "returned"
  /\ threads[1].ret = threads[1].input
  /\ next_of[threads[1].state] = StrV("b_state")

ConditionOf(statement) == SubSeq(statement, 2, Len(statement) - 2)
BranchValue(statement, states) ==
  LET w == statement[Len(statement)] IN
  StrV(IF w.k = "tag" THEN states[w.s] ELSE w.s)

\* the branch of the first statement whose condition holds, the trailing
\* unconditional statement if none does
FirstMatch(statements, states, doc) ==
  LET hits == {i \in 1..(Len(statements) - 1) : Holds(ConditionOf(statements[i]), doc)} IN
  BranchValue(statements[IF hits = {} THEN Len(statements) ELSE Min(hits)], states)

\* C10: the decision function returns the then-branch of the first
\* statement, from the top, whose when-condition holds for the document,
\* and the value of the trailing unconditional statement if none holds
C10_FirstMatchWins ==
  \A l \in OrderedLists : \A i \in Finished :
    (TheChoice = Choice("c", l, Tiers) /\ ~threads[i].input.none) =>
      /\ threads[i].status = "returned"
      /\ next_of[threads[i].state] = FirstMatch(l, Tiers, threads[i].input.doc)

(***************************************************************************)
(* Construction of machines and of a parallel state over them.             *)
(***************************************************************************)
\* StateMachine.__init__ with its machine_name
NamedMachine(machine_name, machine_tree, timeout) ==
  [machine_name |-> machine_name] @@ StateMachine(machine_tree, timeout)

\* "timeout: Optional[int] = 60" of ParallelHandler.__init__: the value the
\* parameter takes when the caller does not pass it
NotGiven == -1
ParallelDefaultTimeout == 60
TimeoutArgument(timeout) == IF timeout = NotGiven THEN ParallelDefaultTimeout ELSE timeout

RECURSIVE SumWorkflowTimeouts(_, _)
SumWorkflowTimeouts(ws, i) ==
  IF i > Len(ws) THEN 0 ELSE ws[i].timeout + SumWorkflowTimeouts(ws, i + 1)

\* ParallelHandler.__init__ (timeout 0 stands for None): None gives the sum
\* of the workflow timeouts, a timeout smaller than the sum gives the sum + 1
ParallelHandler(name, ws, next, timeout) ==
  [name |-> name, type |-> "parallel", next_state |-> next, workflows |-> ws,
   timeout |-> IF timeout = 0 THEN SumWorkflowTimeouts(ws, 1)
               ELSE IF timeout < SumWorkflowTimeouts(ws, 1)
                    THEN SumWorkflowTimeouts(ws, 1) + 1
               ELSE timeout]

\* the state lists, names and timeouts given to the constructors: lists of
\* one and two states, a state without a timeout, a state with a negative
\* timeout, two states under one name, and the empty list
Trees ==
  {<<Lambda("s", NoneV, 1)>>, <<Lambda("s", NoneV, 10)>>, <<Lambda("s", NoneV, 20)>>,
   <<Lambda("s", StrV("t"), 1), Lambda("t", NoneV, 2)>>, <<Lambda("s", NoneV, 0)>>,
   <<Lambda("s", NoneV, -5)>>,
   <<Lambda("s", StrV("t"), 1), Lambda("s", NoneV, 2)>>,
   <<>>}
MachineNames == {"W1", "W2"}
MachineTimeouts == {0, 3, 25}
ParallelTimeouts == {NotGiven, 0, 5, 30, 31}

\* the number of machines constructed
MaxWorkflows == 2

InitBuild ==
  /\ NoCache
  /\ args = <<>>
  /\ workflows = <<>>
  /\ parallel = NoneV
  /\ futures = <<>>
  /\ results = <<>>
  /\ pc = "new"
  /\ machine = NoneV
  /\ next_of = <<>>
  /\ now = 0
  /\ start_time = 0
  /\ entry = NoneEvent
  /\ event = NoneEvent
  /\ step_lambda = NoState
  /\ next_state = NoneV
  /\ context = [state_name |-> NoneV]
  /\ threads = <<>>
  /\ dispatched_at = 0
  /\ timed_out = FALSE
  /\ result = NoneEvent
  /\ err = NoError
  /\ emitted = <<>>
  /\ runs = <<>>

\* lines 40-41: raise ValueError("machine_tree must contains lambdas!")
EmptyTreeError == [kind |-> "ValueError", state |-> NoneV, cause |-> "machine_tree must contains lambdas!"]

\* StateMachine(machine_name, machine_tree, timeout): an empty list raises
\* and no machine comes to exist; any other list gives a machine
NewStateMachine ==
  /\ pc = "new"
  /\ Len(workflows) < MaxWorkflows
  /\ \E name \in MachineNames : \E tree \in Trees : \E timeout \in MachineTimeouts :
       /\ args' = Append(args, [machine_tree |-> tree, timeout |-> timeout])
       /\ IF Len(tree) = 0
          THEN /\ pc' = "rejected"
               /\ err' = EmptyTreeError
               /\ UNCHANGED workflows
          ELSE /\ workflows' = Append(workflows, NamedMachine(name, tree, timeout))
               /\ UNCHANGED <<pc, err>>
  /\ UNCHANGED <<parallel, futures, results, cache_vars>>
  /\ UNCHANGED <<emitted, runs>>
  /\ UNCHANGED <<machine, next_of, now, start_time, entry, event, step_lambda,
                 next_state, context, threads, dispatched_at, timed_out, result>>

\* ParallelHandler(name, workflows, next_state, timeout), or without timeout
NewParallelHandler ==
  /\ pc = "new"
  /\ Len(workflows) >= 1
  /\ \E timeout \in ParallelTimeouts :
       /\ args' = Append(args, [machine_tree |-> <<>>, timeout |-> timeout])
       /\ parallel' = ParallelHandler("p", workflows, NoneV, TimeoutArgument(timeout))
  /\ pc' = "built"
  /\ UNCHANGED <<workflows, futures, results, cache_vars>>
  /\ UNCHANGED <<emitted, runs>>
  /\ UNCHANGED <<machine, next_of, now, start_time, entry, event, step_lambda,
                 next_state, context, threads, dispatched_at, timed_out, result, err>>

NextBuild ==
  \/ NewStateMachine
  \/ NewParallelHandler

SpecBuild == InitBuild /\ [][NextBuild]_vars

(***************************************************************************)
(* Claims about the constructed timeouts.                                  *)
(***************************************************************************)
Max(a, b) == IF a >= b THEN a ELSE b
StatesSum(i) == SumTimeouts(args[i].machine_tree, 1)
WorkflowsSum == SumWorkflowTimeouts(workflows, 1)
Built == pc = "built"
DeclaredParallel == args[Len(args)].timeout

C16_ParallelTimeoutIsMax ==
  Built =>
    /\ parallel.timeout = Max(DeclaredParallel, WorkflowsSum + 1)
    /\ WorkflowsSum < parallel.timeout

(***************************************************************************)
(* The parallel state at work: ParallelHandler.handler over its            *)
(* sub-machines.  A sub-run is seen from the parallel state: w.run is      *)
(* called in a pool thread, its handlers receive the event object the run  *)
(* was called with, and it returns a value or raises.                      *)
(***************************************************************************)
\* the parallel states of the scenarios: two sub-machines whose timeouts sum
\* to the parallel timeout, two sub-machines under the same name, and one
\* sub-machine under the default timeout
Parallels ==
  {ParallelHandler("p", <<NamedMachine("W1", <<Lambda("s", NoneV, 1)>>, 0),
                          NamedMachine("W2", <<Lambda("s", NoneV, 1)>>, 0)>>,
                   NoneV, TimeoutArgument(0)),
   ParallelHandler("p", <<NamedMachine("W1", <<Lambda("s", NoneV, 1)>>, 0),
                          NamedMachine("W1", <<Lambda("t", NoneV, 1)>>, 0)>>,
                   NoneV, TimeoutArgument(3)),
   ParallelHandler("p", <<NamedMachine("W1", <<Lambda("s", NoneV, 1)>>, 0)>>,
                   NoneV, TimeoutArgument(NotGiven))}
ParallelEvents == {Event([value |-> IntV(5)]), Event([value |-> IntV(50)])}

\* executor.submit(w.run, event): the arguments w.run is called with
SubmitArguments(e, ctx) == <<e>>

\* the context a run builds for itself (StateMachine.run, lines 71-80):
\* super_context is entered only when the caller passed one
RunContext(w, run_args) ==
  IF Len(run_args) >= 2
  THEN [machine_name |-> w.machine_name, state_name |-> StrV(w.head_lambda),
        super_context |-> run_args[2]]
  ELSE [machine_name |-> w.machine_name, state_name |-> StrV(w.head_lambda)]

\* the future of one submitted sub-run; yielded is its position in the
\* order of as_completed, 0 while it has not been yielded
Submitted(w, run_args) ==
  [name |-> w.machine_name, status |-> "running", input |-> run_args[1],
   context |-> RunContext(w, run_args), mutated |-> FALSE, ret |-> NoneEvent,
   exc |-> "", yielded |-> 0]

\* faulty variant of Outcome: the exception of a sub-run is not turned into
\* an error slot
OutcomeWithoutErrorSlot(future) == future.ret

\* lines 67-70: the value of future.result(), or {"error": str(e)}
Outcome(future) == IF future.status = "raised" THEN [error |-> future.exc] ELSE future.ret

\* results[workflow_name] = result
Recorded(rs, name, value) ==
  [n \in DOMAIN rs \cup {name} |-> IF n = name THEN value ELSE rs[n]]

Yielded == Cardinality({i \in 1..Len(futures) : futures[i].yielded > 0})
Running(i) == futures[i].status = "running"

InitParallel ==
  /\ NoCache
  /\ args = <<>>
  /\ workflows = <<>>
  /\ parallel \in Parallels
  /\ futures = <<>>
  /\ results = <<>>
  /\ pc = "idle"
  /\ machine = NoneV
  /\ next_of = <<>>
  /\ now = 0
  /\ start_time = 0
  /\ entry = NoneEvent
  /\ event \in ParallelEvents
  /\ step_lambda = "p"
  /\ next_state = NoneV
  /\ context = [state_name |-> StrV("p")]
  /\ threads = <<>>
  /\ dispatched_at = 0
  /\ timed_out = FALSE
  /\ result = NoneEvent
  /\ err = NoError
  /\ emitted = <<>>
  /\ runs = <<>>

\* handler, lines 55-63: every sub-run is submitted with the event, and
\* as_completed starts to wait
ParallelCall ==
  /\ pc = "idle"
  /\ results' = <<>>
  /\ futures' = [i \in 1..Len(parallel.workflows) |->
                   Submitted(parallel.workflows[i], SubmitArguments(event, context))]
  /\ entry' = event
  /\ dispatched_at' = now
  /\ pc' = "waiting"
  /\ UNCHANGED <<args, workflows, parallel, cache_vars>>
  /\ UNCHANGED <<emitted, runs>>
  /\ UNCHANGED <<machine, next_of, now, start_time, event, step_lambda,
                 next_state, context, threads, timed_out, result, err>>

\* a handler of sub-run i changes the event it received in place and writes
\* into the context of its own run
SubMutates ==
  /\ pc \in {"waiting", "shutdown"}
  /\ \E i \in 1..Len(futures) :
       /\ Running(i)
       /\ ~futures[i].mutated
       /\ event' = Event([value |-> IntV(i)])
       /\ futures' = [futures EXCEPT ![i].mutated = TRUE,
                                     ![i].context.state_name = StrV("changed")]
  /\ UNCHANGED <<args, workflows, parallel, results, cache_vars>>
  /\ UNCHANGED <<emitted, runs>>
  /\ UNCHANGED <<machine, next_of, now, start_time, entry, pc, step_lambda,
                 next_state, context, threads, dispatched_at, timed_out, result, err>>

\* sub-run i returns the event as its last handler returned it
SubReturns ==
  /\ pc \in {"waiting", "shutdown"}
  /\ \E i \in 1..Len(futures) :
       /\ Running(i)
       /\ futures' = [futures EXCEPT ![i].status = "returned", ![i].ret = event]
  /\ UNCHANGED <<args, workflows, parallel, results, cache_vars>>
  /\ UNCHANGED <<emitted, runs>>
  /\ UNCHANGED <<machine, next_of, now, start_time, entry, pc, event, step_lambda,
                 next_state, context, threads, dispatched_at, timed_out, result, err>>

\* sub-run i raises
SubRaises ==
  /\ pc \in {"waiting", "shutdown"}
  /\ \E i \in 1..Len(futures) : \E e \in HandlerExceptions :
       /\ Running(i)
       /\ futures' = [futures EXCEPT ![i].status = "raised", ![i].exc = e]
  /\ UNCHANGED <<args, workflows, parallel, results, cache_vars>>
  /\ UNCHANGED <<emitted, runs>>
  /\ UNCHANGED <<machine, next_of, now, start_time, entry, pc, event, step_lambda,
                 next_state, context, threads, dispatched_at, timed_out, result, err>>

\* lines 63-72: as_completed yields a finished future and its outcome is
\* recorded under the name of its sub-machine
ParallelCollect ==
  /\ pc = "waiting"
  /\ \E i \in 1..Len(futures) :
       /\ ~Running(i)
       /\ futures[i].yielded = 0
       /\ results' = Recorded(results, futures[i].name, Outcome(futures[i]))
       /\ futures' = [futures EXCEPT ![i].yielded = Yielded + 1]
  /\ UNCHANGED <<args, workflows, parallel, cache_vars>>
  /\ UNCHANGED <<emitted, runs>>
  /\ UNCHANGED <<machine, next_of, now, start_time, entry, pc, event, step_lambda,
                 next_state, context, threads, dispatched_at, timed_out, result, err>>

\* line 63: as_completed raises TimeoutError while a sub-run is unfinished;
\* the exception leaves the loop and enters the exit of the with block
ParallelTimeout ==
  /\ pc = "waiting"
  /\ \E i \in 1..Len(futures) : Running(i)
  /\ WaitElapsed(now, dispatched_at, parallel.timeout)
  /\ timed_out' = TRUE
  /\ pc' = "shutdown"
  /\ UNCHANGED <<parallel_vars, cache_vars>>
  /\ UNCHANGED <<emitted, runs>>
  /\ UNCHANGED <<machine, next_of, now, start_time, entry, event, step_lambda,
                 next_state, context, threads, dispatched_at, result, err>>

\* line 57, exit of the with block on the exception: shutdown(wait=True)
\* returns when every sub-run has finished, and the TimeoutError leaves
\* the handler
ParallelFails ==
  /\ pc = "shutdown"
  /\ \A i \in 1..Len(futures) : ~Running(i)
  /\ err' = [kind |-> "TimeoutError", cause |-> "", state |-> StrV(parallel.name)]
  /\ pc' = "failed"
  /\ UNCHANGED <<parallel_vars, cache_vars>>
  /\ UNCHANGED <<emitted, runs>>
  /\ UNCHANGED <<machine, next_of, now, start_time, entry, event, step_lambda,
                 next_state, context, threads, dispatched_at, timed_out, result>>

\* line 74: every future was yielded, the with block is left and the
\* mapping is returned
ParallelReturns ==
  /\ pc = "waiting"
  /\ \A i \in 1..Len(futures) : futures[i].yielded > 0
  /\ result' = results
  /\ pc' = "returned"
  /\ UNCHANGED <<parallel_vars, cache_vars>>
  /\ UNCHANGED <<emitted, runs>>
  /\ UNCHANGED <<machine, next_of, now, start_time, entry, event, step_lambda,
                 next_state, context, threads, dispatched_at, timed_out, err>>

\* time passes, but not past the moment at which as_completed gives up
ParallelTick ==
  /\ pc \in {"waiting", "shutdown"}
  /\ now < MaxTime
  /\ \A i \in 1..Len(futures) :
       ~(pc = "waiting" /\ Running(i) /\ WaitElapsed(now, dispatched_at, parallel.timeout))
  /\ now' = now + 1
  /\ UNCHANGED <<parallel_vars, cache_vars>>
  /\ UNCHANGED <<emitted, runs>>
  /\ UNCHANGED <<machine, next_of, start_time, entry, pc, event, step_lambda,
                 next_state, context, threads, dispatched_at, timed_out, result, err>>

NextParallel ==
  \/ ParallelCall
  \/ SubMutates
  \/ SubReturns
  \/ SubRaises
  \/ ParallelCollect
  \/ ParallelTimeout
  \/ ParallelFails
  \/ ParallelReturns
  \/ ParallelTick

SpecParallel == InitParallel /\ [][NextParallel]_vars

(***************************************************************************)
(* Claims about the parallel state.                                        *)
(***************************************************************************)
SubNames == {futures[i].name : i \in 1..Len(futures)}
OwnOutcome(i) ==
  IF futures[i].status = "raised" THEN [error |-> futures[i].exc] ELSE futures[i].ret
LastYielded(n) ==
  CHOOSE i \in 1..Len(futures) :
    /\ futures[i].name = n
    /\ \A j \in 1..Len(futures) : futures[j].name = n => futures[j].yielded <= futures[i].yielded

C12_FailsAtParallelTimeout ==
  /\ (timed_out /\ pc # "failed") => ENABLED ParallelFails
  /\ timed_out => pc # "returned"
  /\ pc = "failed" => err.kind = "TimeoutError"

\* C13: what a sub-machine that changed nothing itself gets to see of the
\* event is the event the parallel state was called with, and the context
\* of its run carries no change made by a peer.
C13_NoChangeOfAPeerObserved ==
  \A i \in 1..Len(futures) :
    (futures[i].status = "returned" /\ ~futures[i].mutated) =>
      /\ futures[i].ret = futures[i].input
      /\ futures[i].context.state_name # StrV("changed")

\* C14: every sub-run is called with the event and the context of the
\* parent, and the context of the sub-run carries the parent's context.
C14_SubRunCarriesParentContext ==
  \A i \in 1..Len(futures) :
    /\ futures[i].input = entry
    /\ "super_context" \in DOMAIN futures[i].context
    /\ futures[i].context.super_context = context

(***************************************************************************)
(* The cache of compiled decision functions: the directory                 *)
(* conditions_cache as a mapping from file names to contents, and the      *)
(* construction of choices over it, one construction after the other.      *)
(***************************************************************************)
\* generate_hash: the digest of (choice_name, conditions); SHA-256 and its
\* first 8 digits are taken to differ for different inputs, so the input
\* stands for its digest.  EmptyHash is content_hash before generate_hash.
ContentHash(name, conditions) == [choice_name |-> name, conditions |-> conditions]
EmptyHash == [choice_name |-> "", conditions |-> <<>>]

\* _get_path: "{safe_choice_name}_{hash[:8]}.py" and
\* "{safe_choice_name}_metadata.json"
CacheFilePath(name, h) == [name |-> SafeName(name), hash |-> h, ext |-> "py"]
MetadataPath(name) == [name |-> SafeName(name), hash |-> EmptyHash, ext |-> "json"]

\* filename.startswith(f"{safe_choice_name}_") on the names of the model
NameStartsWith(file_name, safe_choice_name) ==
  \/ file_name = safe_choice_name
  \/ file_name = "c_d" /\ safe_choice_name = "c"

\* faulty variant of CleanupOldCache: nothing is removed
CleanupNothing(dir, name, h) == dir

\* _cleanup_old_cache: remove the .py files that start with the choice name
\* and not with the name and the first digits of the current hash
CleanupOldCache(dir, name, h) ==
  [f \in {g \in DOMAIN dir :
            ~(/\ g.ext = "py"
              /\ NameStartsWith(g.name, SafeName(name))
              /\ ~(g.name = SafeName(name) /\ g.hash = h))} |-> dir[f]]

\* write of one file
Written(dir, path, content) ==
  [f \in DOMAIN dir \cup {path} |-> IF f = path THEN content ELSE dir[f]]

\* _save_to_cache: cleanup, then the artifact, then the metadata
SaveToCache(dir, name, h, code) ==
  Written(Written(CleanupOldCache(dir, name, h), CacheFilePath(name, h), code),
          MetadataPath(name),
          [hash |-> h, choice_name |-> name, cache_file |-> CacheFilePath(name, h),
           jsonpath_params |-> code.params])

\* a file that was opened with mode 'w' and not written yet: opening
\* truncates, and the text reaches the file when the with block closes it
EmptyFile == [exc |-> "", lines |-> <<>>, consts |-> <<>>, params |-> <<>>]

\* faulty variant of IsCacheValid: the cache is never taken as valid
IsCacheNeverValid(dir, name, h) == FALSE

\* is_cache_valid: the artifact of the current hash exists and the metadata
\* holds the current hash (a metadata file that is not JSON gives None)
IsCacheValid(dir, name, h) ==
  /\ CacheFilePath(name, h) \in DOMAIN dir
  /\ MetadataPath(name) \in DOMAIN dir
  /\ dir[MetadataPath(name)] # EmptyFile
  /\ dir[MetadataPath(name)].hash = h

\* get_path_from_cache: the path in the metadata, if the file it names can
\* be read and is not empty (the path of the metadata stands for None)
PathFromCache(dir, name, h) ==
  IF /\ IsCacheValid(dir, name, h)
     /\ dir[MetadataPath(name)].cache_file \in DOMAIN dir
     /\ dir[dir[MetadataPath(name)].cache_file] # EmptyFile
  THEN dir[MetadataPath(name)].cache_file
  ELSE MetadataPath(name)

\* load_cached_function: FileNotFoundError without valid metadata, the
\* error of the import (exec_module) if the module does not compile, the
\* AttributeError of getattr if the module is empty
LoadCachedFunction(dir, name, h) ==
  IF ~IsCacheValid(dir, name, h) THEN "FileNotFoundError"
  ELSE IF dir[MetadataPath(name)].cache_file \notin DOMAIN dir THEN "FileNotFoundError"
  ELSE IF dir[dir[MetadataPath(name)].cache_file] = EmptyFile THEN "AttributeError"
  ELSE IF ~SyntaxOK(dir[dir[MetadataPath(name)].cache_file].lines) THEN "SyntaxError"
  ELSE ""

\* faulty variant of Parsed: the old artifacts are removed before the
\* function is generated
ParsedPurgesFirst(dir, name, h, code) ==
  IF PathFromCache(dir, name, h) # MetadataPath(name)
  THEN [dir |-> dir, generated |-> FALSE, exc |-> "", path |-> PathFromCache(dir, name, h)]
  ELSE IF code.exc # ""
  THEN [dir |-> CleanupOldCache(dir, name, h), generated |-> TRUE, exc |-> code.exc,
        path |-> MetadataPath(name)]
  ELSE [dir |-> SaveToCache(dir, name, h, code), generated |-> TRUE, exc |-> "",
        path |-> CacheFilePath(name, h)]

\* one pass of ConditionParser.parse over the directory: a hit returns the
\* path, otherwise the generated function is saved, or the exception of
\* the compiler leaves the directory as it is
Parsed(dir, name, h, code) ==
  IF PathFromCache(dir, name, h) # MetadataPath(name)
  THEN [dir |-> dir, generated |-> FALSE, exc |-> "", path |-> PathFromCache(dir, name, h)]
  ELSE IF code.exc # ""
  THEN [dir |-> dir, generated |-> TRUE, exc |-> code.exc, path |-> MetadataPath(name)]
  ELSE [dir |-> SaveToCache(dir, name, h, code), generated |-> TRUE, exc |-> "",
        path |-> CacheFilePath(name, h)]

\* the end of Choice.__init__ after the first parse p: the second pass of
\* the loop loads, and a second FileNotFoundError leads to a second parse,
\* after which the loop ends and the constructor returns without a function
AfterParse(p, name, h, code) ==
  IF p.exc # "" THEN p @@ [outcome |-> p.exc, loaded |-> FALSE]
  ELSE IF LoadCachedFunction(p.dir, name, h) = ""
  THEN p @@ [outcome |-> "returned", loaded |-> TRUE]
  ELSE IF LoadCachedFunction(p.dir, name, h) # "FileNotFoundError"
  THEN p @@ [outcome |-> "ChoiceInitializationError", loaded |-> FALSE]
  ELSE IF Parsed(p.dir, name, h, code).exc # ""
  THEN [Parsed(p.dir, name, h, code) EXCEPT !.generated = TRUE]
       @@ [outcome |-> Parsed(p.dir, name, h, code).exc, loaded |-> FALSE]
  ELSE [Parsed(p.dir, name, h, code) EXCEPT !.generated = TRUE]
       @@ [outcome |-> "returned", loaded |-> FALSE]

\* Choice.__init__, lines 34-57: the first load runs with the empty hash
\* and finds no file "{name}_.py", so the constructor always parses first
ChoiceInit(dir, name, conditions, code) ==
  IF LoadCachedFunction(dir, name, EmptyHash) = ""
  THEN [dir |-> dir, generated |-> FALSE, exc |-> "", path |-> CacheFilePath(name, EmptyHash),
        outcome |-> "returned", loaded |-> TRUE]
  ELSE AfterParse(Parsed(dir, name, ContentHash(name, conditions), code),
                  name, ContentHash(name, conditions), code)

\* the choices constructed over the cache: names of which one starts with
\* the other, statements that compile and load, that do not compile, and
\* that compile into a module that does not load (a missing operand, the
\* word "greater" that is no operator of the language); the second list is
\* the first with a space in front of the statement
CacheNames == {"c", "c_d"}
CacheStatements ==
  {<<WhenElse(RoutingCondition, "A", "B")>>,
   << <<Kw(" ")>> \o WhenElse(RoutingCondition, "A", "B")>>,
   <<When(<<Path("value"), Kw("gt"), Num(5)>>, <<Tag("B")>>), <<Tag("A")>> >>,
   <<When(<<Path("value"), Kw("gt"), Num(5)>>, <<Tag("A")>>)>>,
   << <<Tag("default")>> >>,
   <<When(<<Path("value"), Kw("gt")>>, <<Tag("A"), Kw("else"), Tag("B")>>)>>,
   <<When(<<Path("value"), Kw("greater"), Num(5)>>, <<Tag("A"), Kw("else"), Tag("B")>>)>>}

\* the number of constructions
MaxBuilds == 3

InitCache ==
  /\ NoParallel
  /\ NoCache
  /\ pc = "cache"
  /\ machine = NoneV
  /\ next_of = <<>>
  /\ now = 0
  /\ start_time = 0
  /\ entry = NoneEvent
  /\ event = NoneEvent
  /\ step_lambda = NoState
  /\ next_state = NoneV
  /\ context = [state_name |-> NoneV]
  /\ threads = <<>>
  /\ dispatched_at = 0
  /\ timed_out = FALSE
  /\ result = NoneEvent
  /\ err = NoError
  /\ emitted = <<>>
  /\ runs = <<>>

\* Choice(name, statements, states)
NewChoice ==
  /\ pc = "cache"
  /\ Len(builds) < MaxBuilds
  /\ \E name \in CacheNames : \E conditions \in CacheStatements :
       \E code \in {Parse(conditions, AB)} :
         \E done \in {ChoiceInit(cache_dir, name, conditions, code)} :
           /\ cache_dir' = done.dir
           /\ builds' = Append(builds, [name |-> name, conditions |-> conditions,
                                        before |-> cache_dir, after |-> done.dir,
                                        generated |-> done.generated, path |-> done.path,
                                        outcome |-> done.outcome, loaded |-> done.loaded])
  /\ UNCHANGED <<parallel_vars, savers>>
  /\ UNCHANGED <<emitted, runs>>
  /\ UNCHANGED <<machine, next_of, now, start_time, entry, pc, event, step_lambda,
                 next_state, context, threads, dispatched_at, timed_out, result, err>>

\* clear_all_cache: the directory and all its contents are removed
ClearAllCache ==
  /\ pc = "cache"
  /\ cache_dir # <<>>
  /\ cache_dir' = <<>>
  /\ UNCHANGED <<parallel_vars, builds, savers>>
  /\ UNCHANGED <<emitted, runs>>
  /\ UNCHANGED <<machine, next_of, now, start_time, entry, pc, event, step_lambda,
                 next_state, context, threads, dispatched_at, timed_out, result, err>>

NextCache ==
  \/ NewChoice
  \/ ClearAllCache

SpecCache == InitCache /\ [][NextCache]_vars

(***************************************************************************)
(* Claims about the cache.                                                 *)
(***************************************************************************)
HashOf(b) == ContentHash(b.name, b.conditions)
ArtifactOf(b) == [name |-> b.name, hash |-> HashOf(b), ext |-> "py"]
MetadataOf(b) == [name |-> b.name, hash |-> EmptyHash, ext |-> "json"]

\* the artifact and the metadata of an earlier build of the same
\* (choice_name, statements) pair are in the directory
StillPresent(b) ==
  /\ ArtifactOf(b) \in DOMAIN b.before
  /\ MetadataOf(b) \in DOMAIN b.before
  /\ b.before[MetadataOf(b)].hash = HashOf(b)
  /\ b.before[MetadataOf(b)].cache_file = ArtifactOf(b)

\* the save of the build ran to its end
Saved(b) == b.generated /\ b.outcome \in {"returned", "ChoiceInitializationError"}

\* the artifacts in a directory that carry the choice name of the build
ArtifactsFor(b, dir) == {f \in DOMAIN dir : f.ext = "py" /\ f.name = b.name}

\* C17: a build of a (choice_name, statements) pair whose artifact and
\* metadata are still present is load-only: nothing is generated, no file
\* of the directory is written or removed, and the path is the one of the
\* first build.
C17_SecondBuildIsLoadOnly ==
  \A k \in 1..Len(builds) :
    StillPresent(builds[k]) =>
      /\ ~builds[k].generated
      /\ builds[k].after = builds[k].before
      /\ builds[k].path = ArtifactOf(builds[k])

C17_Witness ==
  /\ Len(builds) = 2
  /\ builds[1].generated /\ builds[1].outcome = "returned"
  /\ builds[2].name = builds[1].name /\ builds[2].conditions = builds[1].conditions
  /\ StillPresent(builds[2])
  /\ ~builds[2].generated /\ builds[2].loaded
  /\ builds[2].path = builds[1].path

C19_LoadedOrInitializationError ==
  \A k \in 1..Len(builds) :
    \/ builds[k].outcome = "returned" /\ builds[k].loaded
    \/ builds[k].outcome = "ChoiceInitializationError"

(***************************************************************************)
(* The reference evaluator: Choice._evaluate of core/blocks, which         *)
(* interprets the statements directly.                                     *)
(***************************************************************************)
\* ' s ' in text: the word s with a word on each side
Inner(text, s) == {i \in Positions(text, s) : 1 < i /\ i < Len(text)}

\* the loop over PARSERS at the end of _parse_condition: the first parser
\* that can parse the text (a quoted literal, a JSONPath, a number) is
\* called as p.parse(self), one argument more than parse() takes, which is
\* a TypeError; a text no parser takes gives None
ParseTerm(condition) ==
  IF \/ \E i \in 1..Len(condition) : condition[i].k = "str"
     \/ condition[1].k = "path"
     \/ Len(condition) = 1 /\ condition[1].k = "num"
  THEN Raise("TypeError")
  ELSE Ret(NoneV)

\* OPERATORS, in the order of the dict
OPERATORS == <<"gt", "lt", "eq", "neq", "gte", "lte">>

\* Choice._parse_condition: not, then and / or (split at the first ' and '
\* if there is one, both sides evaluated), then the first operator of
\* OPERATORS that occurs, then a term
RECURSIVE ParseCondition(_)
ParseCondition(condition) ==
  IF Len(condition) = 0 THEN Raise("ValueError")
  ELSE IF IsKw(condition[1], "not") /\ Len(condition) > 1
  THEN LET r == ParseCondition(Tail(condition)) IN
       IF r.tag = "raise" THEN r ELSE Ret(BoolV(~Truthy(r.v)))
  ELSE IF Inner(condition, "and") \cup Inner(condition, "or") # {}
  THEN LET op == IF Inner(condition, "and") # {} THEN "and" ELSE "or"
           at == Min(Inner(condition, op))
           left == ParseCondition(SubSeq(condition, 1, at - 1))
           right == ParseCondition(SubSeq(condition, at + 1, Len(condition)))
       IN
       IF left.tag = "raise" THEN left
       ELSE IF right.tag = "raise" THEN right
       ELSE IF Truthy(left.v) = (op = "and") THEN right ELSE left
  ELSE IF \E k \in 1..Len(OPERATORS) : Inner(condition, OPERATORS[k]) # {}
  THEN LET op == OPERATORS[Min({k \in 1..Len(OPERATORS) :
                                  Inner(condition, OPERATORS[k]) # {}})]
           at == Min(Inner(condition, op))
           left == ParseCondition(SubSeq(condition, 1, at - 1))
           right == ParseCondition(SubSeq(condition, at + 1, Len(condition)))
       IN
       IF left.tag = "raise" THEN left
       ELSE IF right.tag = "raise" THEN right
       ELSE Compare(PyOp(op), left.v, right.v)
  ELSE ParseTerm(condition)

\* Choice._evaluate from statement i on: a statement whose evaluation
\* raises is skipped; a statement without then returns what its condition
\* gives; a condition that holds returns what the then part gives, one that
\* does not hold returns what the else part gives unless that is None
RECURSIVE Evaluate(_, _)
Evaluate(operations, i) ==
  IF i > Len(operations) THEN NoneV
  ELSE IF Len(operations[i]) = 0 THEN Evaluate(operations, i + 1)
  ELSE IF Inner(operations[i], "then") = {}
  THEN LET r == ParseCondition(operations[i]) IN
       IF r.tag = "raise" THEN Evaluate(operations, i + 1) ELSE r.v
  ELSE LET at == Min(Inner(operations[i], "then"))
           when_part == SubSeq(operations[i], 1, at - 1)
           then == SubSeq(operations[i], at + 1, Len(operations[i]))
           condition == IF IsKw(when_part[1], "when") /\ Len(when_part) > 1
                        THEN Tail(when_part) ELSE when_part
           r == ParseCondition(condition)
           elses == Inner(then, "else")
       IN
       IF r.tag = "raise" THEN Evaluate(operations, i + 1)
       ELSE IF Truthy(r.v)
       THEN Evaluate(<<IF elses = {} THEN then ELSE SubSeq(then, 1, Min(elses) - 1)>>, 1)
       ELSE IF elses = {} THEN Evaluate(operations, i + 1)
       ELSE LET e == Evaluate(<<SubSeq(then, Min(elses) + 1, Len(then))>>, 1) IN
            IF e = NoneV THEN Evaluate(operations, i + 1) ELSE e

\* C20: on every document, the compiled and loaded decision function of a
\* choice returns what the reference evaluator returns for the same
\* statements.
C20_CompiledEqualsReference ==
  \A i \in 1..Len(threads) :
    threads[i].status # "running" =>
      /\ threads[i].status = "returned"
      /\ next_of[threads[i].state] = Evaluate(TheChoice.statements, 1)

(***************************************************************************)
(* Claims about runtime errors of a decision.                              *)
(***************************************************************************)
\* C21: when the condition of a statement cannot be evaluated on the
\* document (a path of it resolves to nothing), the call of the choice
\* still returns, the statement is skipped, and next_state is what the
\* following statements give, the trailing default if none of them holds.
C21_RuntimeErrorSkipped ==
  \A l \in OrderedLists : \A i \in Finished :
    (/\ TheChoice = Choice("c", l, Tiers)
     /\ ~threads[i].input.none
     /\ \E k \in 1..(Len(l) - 1) : ~Resolves(ConditionOf(l[k]), threads[i].input.doc)) =>
      /\ threads[i].status = "returned"
      /\ next_of[threads[i].state] = FirstMatch(l, Tiers, threads[i].input.doc)

\* C22: the log of a completed run is, for each visited state in visiting
\* order, one enter message and then one exit message of that state, followed
\* by one completion message that carries the output of the last state; a
\* failed run logs no completion message.
C22_EmittedSequence ==
  /\ pc = "done" =>
       /\ Len(emitted) = 2 * Len(threads) + 1
       /\ \A k \in 1..Len(threads) :
            /\ emitted[2 * k - 1].message = "Entering state"
            /\ emitted[2 * k - 1].state = StrV(threads[k].state)
            /\ emitted[2 * k].message = "Exiting state"
            /\ emitted[2 * k].state = StrV(threads[k].state)
       /\ emitted[Len(emitted)].message = "Execution completed successfully."
       /\ "event" \in DOMAIN emitted[Len(emitted)]
       /\ emitted[Len(emitted)].event = threads[Len(threads)].ret
  /\ pc = "failed" =>
       \A k \in 1..Len(emitted) : emitted[k].message # "Execution completed successfully."

\* C25: the handler of the head state receives as its input the event the
\* caller passed to run, unchanged, whatever that event is.
C25_HeadReceivesEntry ==
  Len(threads) >= 1 => threads[1].input = entry

(***************************************************************************)
(* Concurrent constructions of choices over one cache directory: each      *)
(* constructor is a process that takes the steps of Choice.__init__,       *)
(* ConditionParser.parse and CacheHandler._save_to_cache one file          *)
(* operation at a time; nothing in the code locks the directory.           *)
(***************************************************************************)
\* the number of constructors that run at the same time
MaxSavers == 2

\* both constructors have made the first load_cached_function, which runs
\* with the empty hash and raises FileNotFoundError, and are about to parse
InitSave ==
  /\ NoParallel
  /\ cache_dir = <<>>
  /\ builds = <<>>
  /\ savers \in [1..MaxSavers ->
                   [name : CacheNames, conditions : CacheStatements, pc : {"parse"},
                    count : {0}, outcome : {""}, exc : {""}, loaded : {FALSE}]]
  /\ pc = "save"
  /\ machine = NoneV
  /\ next_of = <<>>
  /\ now = 0
  /\ start_time = 0
  /\ entry = NoneEvent
  /\ event = NoneEvent
  /\ step_lambda = NoState
  /\ next_state = NoneV
  /\ context = [state_name |-> NoneV]
  /\ threads = <<>>
  /\ dispatched_at = 0
  /\ timed_out = FALSE
  /\ result = NoneEvent
  /\ err = NoError
  /\ emitted = <<>>
  /\ runs = <<>>

\* parse, lines 310-338: a hit of get_path_from_cache returns at once and
\* the loop of the constructor counts the parse; otherwise the function is
\* generated, and an exception of the compiler leaves the constructor
SaverParse(i) ==
  /\ pc = "save"
  /\ savers[i].pc = "parse"
  /\ \E h \in {ContentHash(savers[i].name, savers[i].conditions)} :
       \E code \in {Parse(savers[i].conditions, AB)} :
         savers' = [savers EXCEPT ![i] =
           IF PathFromCache(cache_dir, savers[i].name, h) # MetadataPath(savers[i].name)
           THEN IF savers[i].count = 0
                THEN [savers[i] EXCEPT !.count = 1, !.pc = "load"]
                ELSE [savers[i] EXCEPT !.count = 2, !.pc = "done", !.outcome = "returned"]
           ELSE IF code.exc # ""
           THEN [savers[i] EXCEPT !.pc = "done", !.outcome = code.exc]
           ELSE [savers[i] EXCEPT !.pc = "cleanup"]]
  /\ UNCHANGED <<parallel_vars, cache_dir, builds>>
  /\ UNCHANGED <<emitted, runs>>
  /\ UNCHANGED <<machine, next_of, now, start_time, entry, pc, event, step_lambda,
                 next_state, context, threads, dispatched_at, timed_out, result, err>>

\* _save_to_cache, line 207: the removals of _cleanup_old_cache
SaverCleanup(i) ==
  /\ pc = "save"
  /\ savers[i].pc = "cleanup"
  /\ cache_dir' = CleanupOldCache(cache_dir, savers[i].name,
                                  ContentHash(savers[i].name, savers[i].conditions))
  /\ savers' = [savers EXCEPT ![i].pc = "artifact"]
  /\ UNCHANGED <<parallel_vars, builds>>
  /\ UNCHANGED <<emitted, runs>>
  /\ UNCHANGED <<machine, next_of, now, start_time, entry, pc, event, step_lambda,
                 next_state, context, threads, dispatched_at, timed_out, result, err>>

\* _save_to_cache, lines 210-211: open(cache_file_path, 'w') creates or
\* truncates the artifact, and the close writes the code into the file that
\* was opened; if a cleanup has removed that file meanwhile, the text goes
\* to the removed file and the directory does not change
SaverWriteArtifact(i) ==
  /\ pc = "save"
  /\ savers[i].pc \in {"artifact", "artifact open"}
  /\ \E path \in {CacheFilePath(savers[i].name,
                                ContentHash(savers[i].name, savers[i].conditions))} :
       IF savers[i].pc = "artifact"
       THEN /\ cache_dir' = Written(cache_dir, path, EmptyFile)
            /\ savers' = [savers EXCEPT ![i].pc = "artifact open"]
       ELSE /\ \E code \in {Parse(savers[i].conditions, AB)} :
                 cache_dir' = IF path \in DOMAIN cache_dir
                              THEN Written(cache_dir, path, code) ELSE cache_dir
            /\ savers' = [savers EXCEPT ![i].pc = "metadata"]
  /\ UNCHANGED <<parallel_vars, builds>>
  /\ UNCHANGED <<emitted, runs>>
  /\ UNCHANGED <<machine, next_of, now, start_time, entry, pc, event, step_lambda,
                 next_state, context, threads, dispatched_at, timed_out, result, err>>

\* _save_to_cache, lines 214-225: open(metadata_path, 'w') truncates the
\* metadata and the close writes the record of this save, whether or not
\* the artifact is still there; parse returns and the constructor counts it
SaverWriteMetadata(i) ==
  /\ pc = "save"
  /\ savers[i].pc \in {"metadata", "metadata open"}
  /\ \E h \in {ContentHash(savers[i].name, savers[i].conditions)} :
       IF savers[i].pc = "metadata"
       THEN /\ cache_dir' = Written(cache_dir, MetadataPath(savers[i].name), EmptyFile)
            /\ savers' = [savers EXCEPT ![i].pc = "metadata open"]
       ELSE /\ \E code \in {Parse(savers[i].conditions, AB)} :
                 cache_dir' = Written(cache_dir, MetadataPath(savers[i].name),
                                      [hash |-> h, choice_name |-> savers[i].name,
                                       cache_file |-> CacheFilePath(savers[i].name, h),
                                       jsonpath_params |-> code.params])
            /\ savers' = [savers EXCEPT ![i] =
                 IF savers[i].count = 0
                 THEN [savers[i] EXCEPT !.count = 1, !.pc = "load"]
                 ELSE [savers[i] EXCEPT !.count = 2, !.pc = "done", !.outcome = "returned"]]
  /\ UNCHANGED <<parallel_vars, builds>>
  /\ UNCHANGED <<emitted, runs>>
  /\ UNCHANGED <<machine, next_of, now, start_time, entry, pc, event, step_lambda,
                 next_state, context, threads, dispatched_at, timed_out, result, err>>

\* Choice.__init__, lines 42-57: the second pass of the loop loads with the
\* hash of the statements; FileNotFoundError leads to a second parse, any
\* other exception to ChoiceInitializationError
SaverLoad(i) ==
  /\ pc = "save"
  /\ savers[i].pc = "load"
  /\ \E r \in {LoadCachedFunction(cache_dir, savers[i].name,
                                  ContentHash(savers[i].name, savers[i].conditions))} :
       savers' = [savers EXCEPT ![i] =
         IF r = ""
         THEN [savers[i] EXCEPT !.pc = "done", !.outcome = "returned", !.loaded = TRUE]
         ELSE IF r = "FileNotFoundError"
         THEN [savers[i] EXCEPT !.pc = "parse"]
         ELSE [savers[i] EXCEPT !.pc = "done", !.outcome = "ChoiceInitializationError",
                                !.exc = r]]
  /\ UNCHANGED <<parallel_vars, cache_dir, builds>>
  /\ UNCHANGED <<emitted, runs>>
  /\ UNCHANGED <<machine, next_of, now, start_time, entry, pc, event, step_lambda,
                 next_state, context, threads, dispatched_at, timed_out, result, err>>

NextSave ==
  \E i \in 1..MaxSavers :
    \/ SaverParse(i)
    \/ SaverCleanup(i)
    \/ SaverWriteArtifact(i)
    \/ SaverWriteMetadata(i)
    \/ SaverLoad(i)

SpecSave == InitSave /\ [][NextSave]_vars

(***************************************************************************)
(* Claims about concurrent saves.                                          *)
(***************************************************************************)
\* every constructor has ended and each of them saved or found a saved
\* function: all were given the same choice name and statements that compile
AllSavedFor(name) ==
  \A i \in 1..MaxSavers :
    /\ savers[i].pc = "done"
    /\ savers[i].name = name
    /\ Parse(savers[i].conditions, AB).exc = ""

\* C23: when the constructors that ran concurrently for one choice name
\* have ended, the cache is consistent: with equal statements it is what a
\* single save leaves, and with different statements exactly one artifact
\* of the name remains and the metadata's hash and cache_file refer to it.
C23_ConcurrentSavesConsistent ==
  \A name \in CacheNames :
    AllSavedFor(name) =>
      IF \A i \in 1..MaxSavers : savers[i].conditions = savers[1].conditions
      THEN cache_dir = SaveToCache(<<>>, name, ContentHash(name, savers[1].conditions),
                                   Parse(savers[1].conditions, AB))
      ELSE \E f \in DOMAIN cache_dir :
             /\ {g \in DOMAIN cache_dir : g.ext = "py" /\ g.name = SafeName(name)} = {f}
             /\ cache_dir[f] # EmptyFile
             /\ cache_dir[MetadataPath(name)] # EmptyFile
             /\ cache_dir[MetadataPath(name)].cache_file = f
             /\ cache_dir[MetadataPath(name)].hash = f.hash

\* C24: at every moment metadata that holds a hash comes with a completely
\* written artifact of that hash, and no load that found valid metadata
\* got a missing or empty artifact.
C24_MetadataPairedWithArtifact ==
  /\ \A f \in DOMAIN cache_dir :
       (f.ext = "json" /\ cache_dir[f] # EmptyFile) =>
         /\ cache_dir[f].cache_file \in DOMAIN cache_dir
         /\ cache_dir[cache_dir[f].cache_file] # EmptyFile
  /\ \A i \in 1..MaxSavers : savers[i].exc # "AttributeError"

(***************************************************************************)
(* Claims about nested statements and exist.                               *)
(***************************************************************************)
\* C26: the choice of FallThrough sends v = 9 and v = 15 to default, v = 25
\* to no-match and v = 35 to match: a nested when whose condition fails and
\* that has no else of its own falls through to the next statement.
C26_NestedWhenFallsThrough ==
  \A i \in Finished :
    (/\ TheChoice = Choice("c", FallThrough, Matches)
     /\ ~threads[i].input.none
     /\ "v" \in DOMAIN threads[i].input.doc) =>
      /\ threads[i].status = "returned"
      /\ next_of[threads[i].state] =
           StrV(Matches[(9 :> "default" @@ 15 :> "default" @@ 25 :> "no-match"
                         @@ 35 :> "match")[threads[i].input.doc.v.n]])

\* the call with v = 25 returned: the innermost else decided
C26_Witness ==
  /\ TheChoice = Choice("c", FallThrough, Matches)
  /\ Len(threads) = 1
  /\ threads[1].status = "returned"
  /\ threads[1].input = Event([v |-> IntV(25)])
  /\ next_of[threads[1].state] = StrV("no_match_state")

\* C27: the statement when A then when B then #P else #Q else #R compiles,
\* and its decision is P if A and B hold, Q if A holds and B does not, and
\* R if A does not hold.
C27_ElseBelongsToNearestWhen ==
  /\ Constructs(Choice("c", NestedElse, Tiers))
  /\ \A i \in Finished :
       (/\ TheChoice = Choice("c", NestedElse, Tiers)
        /\ Resolves(<<Path("age"), Path("score")>>, threads[i].input.doc)) =>
         /\ threads[i].status = "returned"
         /\ next_of[threads[i].state] =
              StrV(Tiers[IF threads[i].input.doc.age.n >= 18
                         THEN IF threads[i].input.doc.score.n > 70
                              THEN "premium" ELSE "basic"
                         ELSE "minor"])

\* C28: in the choice [when exist $.p then #A else #B] the then branch is
\* taken exactly when the document holds a value at $.p, whatever that
\* value is, null included.
C28_ExistIffPathResolves ==
  \A i \in Finished :
    TheChoice = Choice("c", ExistStatement, AB) =>
      /\ threads[i].status = "returned"
      /\ next_of[threads[i].state] =
           (IF /\ ~threads[i].input.none
               /\ "p" \in DOMAIN threads[i].input.doc
               /\ threads[i].input.doc.p # Missing
            THEN StrV("a_state") ELSE StrV("b_state"))

(***************************************************************************)
(* Claims about the hash and about statements that do not compile.         *)
(***************************************************************************)
IsWord(w) == w # Kw(" ")

\* single-space collapse and trim: the statements without their extra spaces
Normalized(conditions) ==
  [i \in 1..Len(conditions) |-> SelectSeq(conditions[i], IsWord)]

\* C29: a build whose statements differ only in whitespace from statements
\* S built before for the same name, with the artifact and the metadata of S
\* still in place, is a cache hit: nothing is generated and no file of the
\* directory is written or removed.
C29_WhitespaceVariantIsCacheHit ==
  \A k \in 1..Len(builds) : \A j \in 1..(k - 1) :
    (/\ builds[j].name = builds[k].name
     /\ builds[j].conditions = Normalized(builds[k].conditions)
     /\ ArtifactOf(builds[j]) \in DOMAIN builds[k].before
     /\ MetadataOf(builds[j]) \in DOMAIN builds[k].before
     /\ builds[k].before[MetadataOf(builds[j])].hash = HashOf(builds[j])) =>
      /\ ~builds[k].generated
      /\ builds[k].after = builds[k].before

\* C30: a build whose statements name a tag that the states do not hold
\* fails with the KeyError of the compiler and leaves the directory as it
\* was: nothing is created, changed or removed.
C30_MissingTagNothingWritten ==
  \A k \in 1..Len(builds) :
    (\E c \in WordsOfKind(builds[k].conditions, "tag") : c \notin DOMAIN AB) =>
      /\ builds[k].outcome = "KeyError"
      /\ builds[k].after = builds[k].before

\* a build with an unknown tag failed over a directory that holds an
\* artifact of the same choice name, and the artifact is still there
C30_Witness ==
  /\ Len(builds) = 2
  /\ Saved(builds[1])
  /\ builds[2].name = builds[1].name
  /\ builds[2].outcome = "KeyError"
  /\ ArtifactOf(builds[1]) \in DOMAIN cache_dir
  /\ cache_dir = builds[1].after

\* some statement holds the word "greater", which is no operator of the
\* language, where an operator stands
UsesUnknownOperator(conditions) ==
  \E i \in 1..Len(conditions) : \E j \in 1..Len(conditions[i]) :
    conditions[i][j] = Kw("greater")

\* C31: a build whose statements use an operator outside the operator set
\* fails and is not cached: it leaves no artifact and no metadata, and the
\* directory is as it was.
C31_UnknownOperatorNeverCached ==
  \A k \in 1..Len(builds) :
    UsesUnknownOperator(builds[k].conditions) =>
      /\ builds[k].outcome # "returned"
      /\ builds[k].after = builds[k].before
      /\ ArtifactOf(builds[k]) \notin DOMAIN builds[k].after

(***************************************************************************)
(* Claims about the context and about next_state.                          *)
(***************************************************************************)
\* C32: while the work of a state is under way (the handler of a task or a
\* choice is running, the sub-runs of a parallel state are submitted), the
\* context holds the name of that state and a timestamp taken at the entry
\* of that state.
C32_ContextSetBeforeWork ==
  /\ (pc = "waiting" /\ threads # <<>>) =>
       (Current.status = "running" =>
          /\ context.state_name = StrV(Current.state)
          /\ "timestamp" \in DOMAIN context
          /\ context.timestamp = dispatched_at)
  /\ futures # <<>> =>
       /\ context.state_name = StrV(parallel.name)
       /\ "timestamp" \in DOMAIN context
       /\ context.timestamp = dispatched_at

C35_TimedOutRunRaisesExecutionError ==
  timed_out =>
    /\ pc \in {"shutdown", "failed"}
    /\ pc = "failed" =>
         /\ err.kind = "StateMachineExecutionError"
         /\ err.cause = "StateTimedOut"
         /\ err.state = next_state
         /\ next_state = StrV(Current.state)

\* the handler finished after its state's timeout had elapsed, and the run
\* then failed
C35_Witness ==
  /\ pc = "failed"
  /\ timed_out
  /\ Current.status = "returned"
  /\ Len(threads) >= 2
  /\ err.cause = "StateTimedOut"

(***************************************************************************)
(* Claims about the constructed machines and states.                       *)
(***************************************************************************)
DistinctNames(machine_tree) ==
  \A j, k \in 1..Len(machine_tree) :
    machine_tree[j].name = machine_tree[k].name => j = k

\* C36: every constructed machine was given a non-empty state list with
\* pairwise distinct names, its registry holds every given state under that
\* state's name, and the state registered under the head's name is the first
\* state given; the construction from an empty list raises ValueError and
\* gives no machine.
C36_RegistryHoldsEveryState ==
  /\ \A i \in 1..Len(workflows) :
       /\ Len(args[i].machine_tree) > 0
       /\ DistinctNames(args[i].machine_tree)
       /\ \A j \in 1..Len(args[i].machine_tree) :
            workflows[i].machine_tree[args[i].machine_tree[j].name] = args[i].machine_tree[j]
       /\ workflows[i].machine_tree[workflows[i].head_lambda] = args[i].machine_tree[1]
  /\ pc = "rejected" =>
       /\ Len(args) = Len(workflows) + 1
       /\ args[Len(args)].machine_tree = <<>>
       /\ err.kind = "ValueError"

\* C37: every state given to a constructed machine has a timeout of at least
\* one second, and a state constructed without a timeout has the timeout 60.
C37_StateTimeoutAtLeastOne ==
  \A i \in 1..Len(workflows) : \A j \in 1..Len(args[i].machine_tree) :
    /\ args[i].machine_tree[j].timeout >= 1
    /\ args[i].machine_tree[j] =
         Lambda(args[i].machine_tree[j].name, args[i].machine_tree[j].next_state, 0)
       => args[i].machine_tree[j].timeout = DefaultTimeout

\* C38: a construction for one choice name leaves every file that the cache
\* holds under another choice name in place and with its content, whatever
\* the two names are.
C38_OtherNamesUntouched ==
  \A k \in 1..Len(builds) : \A f \in DOMAIN builds[k].before :
    f.name # SafeName(builds[k].name) =>
      /\ f \in DOMAIN builds[k].after
      /\ builds[k].after[f] = builds[k].before[f]

(***************************************************************************)
(* Two calls of run on one machine object, each in a thread of its caller. *)
(* Every call has its own locals (event, step_lambda, next_state, context) *)
(* and its own executor; the state objects of the machine, and with them   *)
(* their next_state fields, are the same objects for every call.  The      *)
(* calls stay within their timeouts: the clock does not advance here.      *)
(***************************************************************************)
\* the machine both callers run: a task state, a choice, and the two states
\* the choice selects between, of which the second names no registered
\* successor
SharedMachine ==
  StateMachine(<<Lambda("a", StrV("c"), 1),
                 Choice("c", <<RoutingStatement>>, [X |-> "x_state", Y |-> "y_state"]),
                 Lambda("x_state", NoneV, 1),
                 Lambda("y_state", StrV("ghost"), 1)>>, 0)

\* the events given to the calls and returned by the user handlers
RunEvents == {Event([value |-> Missing]), Event([value |-> IntV(5)]),
              Event([value |-> IntV(50)])}

\* the number of concurrent calls
MaxRuns == 2

\* run, lines 63-80: the locals of one call before the first pass of the
\* loop; future is the handler call of the current pass, exited the state
\* whose handler gave the current event
Run(m, e) ==
  [entry |-> e, event |-> (IF EventTruthy(e) THEN e ELSE NoneEvent),
   step_lambda |-> m.head_lambda, next_state |-> StrV(m.head_lambda),
   context |-> [state_name |-> StrV(m.head_lambda)], pc |-> "boundary",
   future |-> [status |-> "none", input |-> NoneEvent, ret |-> NoneEvent, exc |-> ""],
   exited |-> NoState, result |-> NoneEvent, err |-> NoError]

InitRuns ==
  /\ NoParallel
  /\ NoCache
  /\ machine = SharedMachine
  /\ next_of = [n \in DOMAIN machine.machine_tree |-> machine.machine_tree[n].next_state]
  /\ runs = <<>>
  /\ pc = "runs"
  /\ now = 0
  /\ start_time = 0
  /\ entry = NoneEvent
  /\ event = NoneEvent
  /\ step_lambda = NoState
  /\ next_state = NoneV
  /\ context = [state_name |-> NoneV]
  /\ threads = <<>>
  /\ dispatched_at = 0
  /\ timed_out = FALSE
  /\ result = NoneEvent
  /\ err = NoError
  /\ emitted = <<>>

\* a caller thread calls machine.run(event)
RunCalled ==
  /\ Len(runs) < MaxRuns
  /\ \E e \in RunEvents : runs' = Append(runs, Run(machine, e))
  /\ UNCHANGED <<parallel_vars, cache_vars, emitted>>
  /\ UNCHANGED <<machine, next_of, now, start_time, entry, pc, event, step_lambda,
                 next_state, context, threads, dispatched_at, timed_out, result, err>>

\* lines 90-94 in call r: the state pointer is unresolved
RunStateNotFound(r) ==
  /\ runs[r].pc = "boundary"
  /\ runs[r].step_lambda = NoState
  /\ runs' = [runs EXCEPT ![r].pc = "failed",
                          ![r].err = NotFoundError(runs[r].next_state)]
  /\ UNCHANGED <<parallel_vars, cache_vars, emitted>>
  /\ UNCHANGED <<machine, next_of, now, start_time, entry, pc, event, step_lambda,
                 next_state, context, threads, dispatched_at, timed_out, result, err>>

\* lines 109-113 in call r: submit the handler of the state to the worker of
\* this pass
RunDispatch(r) ==
  /\ runs[r].pc = "boundary"
  /\ runs[r].step_lambda # NoState
  /\ runs' = [runs EXCEPT ![r].pc = "waiting",
                          ![r].future = [status |-> "running", input |-> runs[r].event,
                                         ret |-> NoneEvent, exc |-> ""]]
  /\ UNCHANGED <<parallel_vars, cache_vars, emitted>>
  /\ UNCHANGED <<machine, next_of, now, start_time, entry, pc, event, step_lambda,
                 next_state, context, threads, dispatched_at, timed_out, result, err>>

\* Lambda.handler in the worker of call r: the user handler returns
RunLambdaReturns(r) ==
  /\ runs[r].pc = "waiting"
  /\ runs[r].future.status = "running"
  /\ machine.machine_tree[runs[r].step_lambda].type = "lambda"
  /\ \E e \in RunEvents :
       runs' = [runs EXCEPT ![r].future.status = "returned", ![r].future.ret = e]
  /\ UNCHANGED <<parallel_vars, cache_vars, emitted>>
  /\ UNCHANGED <<machine, next_of, now, start_time, entry, pc, event, step_lambda,
                 next_state, context, threads, dispatched_at, timed_out, result, err>>

\* Choice.handler in the worker of call r, line 64: the decision for the
\* event of this call is stored in the next_state field of the choice
\* object, and the event is returned
RunChoiceHandler(r) ==
  /\ runs[r].pc = "waiting"
  /\ runs[r].future.status = "running"
  /\ machine.machine_tree[runs[r].step_lambda].type = "choice"
  /\ \E decision \in {JsonpathWrapper(
                          DecisionFunction(machine.machine_tree[runs[r].step_lambda]),
                          runs[r].future.input)} :
       IF decision.tag = "raise"
       THEN /\ runs' = [runs EXCEPT ![r].future.status = "raised",
                                    ![r].future.exc = decision.exc]
            /\ UNCHANGED next_of
       ELSE /\ next_of' = [next_of EXCEPT ![runs[r].step_lambda] = decision.v]
            /\ runs' = [runs EXCEPT ![r].future.status = "returned",
                                    ![r].future.ret = runs[r].future.input]
  /\ UNCHANGED <<parallel_vars, cache_vars, emitted>>
  /\ UNCHANGED <<machine, now, start_time, entry, pc, event, step_lambda,
                 next_state, context, threads, dispatched_at, timed_out, result, err>>

\* lines 115, 129-157 in call r: take the result as the event, read the
\* next_state field of the state object, return or advance
RunResultReturned(r) ==
  /\ runs[r].pc = "waiting"
  /\ runs[r].future.status = "returned"
  /\ \E next \in {next_of[runs[r].step_lambda]} :
       runs' = [runs EXCEPT
         ![r].event = runs[r].future.ret,
         ![r].next_state = next,
         ![r].exited = runs[r].step_lambda,
         ![r].pc = IF next.t = "none" THEN "done" ELSE "boundary",
         ![r].result = IF next.t = "none" THEN runs[r].future.ret ELSE runs[r].result,
         ![r].context = IF next.t = "none" THEN runs[r].context
                        ELSE [state_name |-> next],
         ![r].step_lambda = IF next.t = "none" THEN runs[r].step_lambda
                            ELSE GetState(machine, next)]
  /\ UNCHANGED <<parallel_vars, cache_vars, emitted>>
  /\ UNCHANGED <<machine, next_of, now, start_time, entry, pc, event, step_lambda,
                 next_state, context, threads, dispatched_at, timed_out, result, err>>

\* lines 115, 159-169 in call r: the exception of the handler is wrapped
RunHandlerRaised(r) ==
  /\ runs[r].pc = "waiting"
  /\ runs[r].future.status = "raised"
  /\ runs' = [runs EXCEPT ![r].pc = "failed",
                          ![r].err = WrappedError(runs[r].next_state, runs[r].future.exc)]
  /\ UNCHANGED <<parallel_vars, cache_vars, emitted>>
  /\ UNCHANGED <<machine, next_of, now, start_time, entry, pc, event, step_lambda,
                 next_state, context, threads, dispatched_at, timed_out, result, err>>

NextRuns ==
  \/ RunCalled
  \/ \E r \in 1..Len(runs) : RunStateNotFound(r)
  \/ \E r \in 1..Len(runs) : RunDispatch(r)
  \/ \E r \in 1..Len(runs) : RunLambdaReturns(r)
  \/ \E r \in 1..Len(runs) : RunChoiceHandler(r)
  \/ \E r \in 1..Len(runs) : RunResultReturned(r)
  \/ \E r \in 1..Len(runs) : RunHandlerRaised(r)

SpecRuns == InitRuns /\ [][NextRuns]_vars

\* C39: a call that has just left a choice state continues at the successor
\* the decision function yields for the event of that call, whatever the
\* other call on the same machine object does in the meantime.
C39_OwnDecisionTaken ==
  \A r \in 1..Len(runs) :
    (runs[r].exited # NoState /\ machine.machine_tree[runs[r].exited].type = "choice") =>
      runs[r].next_state =
        JsonpathWrapper(DecisionFunction(machine.machine_tree[runs[r].exited]),
                        runs[r].event).v

(***************************************************************************)
(* Termination of run, under the provisos of the claim: the thread that    *)
(* called run is scheduled (weak fairness of every step of the loop), the  *)
(* clock advances (weak fairness of Tick), and every handler finishes: no  *)
(* call of a handler stays in its worker for ever.                         *)
(***************************************************************************)
HandlerRunning == \E i \in 1..Len(threads) : threads[i].status = "running"

SpecLive ==
  /\ Init
  /\ [][Next]_vars
  /\ WF_vars(GlobalTimeout)
  /\ WF_vars(StateNotFound)
  /\ WF_vars(Dispatch)
  /\ WF_vars(ResultReturned)
  /\ WF_vars(StateTimeout)
  /\ WF_vars(HandlerRaised)
  /\ WF_vars(ExecutorShutdown)
  /\ WF_vars(Tick)
  /\ []<>(~HandlerRunning)

\* the run has been through the same state twice
Cycled ==
  \E i, j \in 1..Len(threads) : i < j /\ threads[i].state = threads[j].state

\* C40: every call of run ends, by returning or by raising, and stays ended,
\* also on a machine whose next_state pointers form a cycle
C40_RunTerminates == <>[](pc \in {"done", "failed"})

\* a run on a cycle, still able to dispatch, was ended by the deadline test
\* at the state boundary
C40_Witness ==
  /\ pc = "failed"
  /\ err.kind = "TimeoutError"
  /\ Cycled
  /\ Len(threads) < MaxDispatch
  /\ step_lambda # NoState

====
